---- MODULE Spec2Model ----
(***************************************************************************)
(* State-machine model of the RomWBW/HBIOS emulator driver of iOSCPM:      *)
(* HBIOSEmulator and hbios_cpu (src/iOSCPM/Core/hbios_core.cc).            *)
(*                                                                         *)
(* The driver's collaborators banked_mem (romwbw_mem.h), HBIOSDispatch     *)
(* (hbios_dispatch.h) and the Z80 interpreter qkz80 (qkz80.h) are not part *)
(* of the source tree; they are modelled from the specification (sections  *)
(* 3, 4.1, 4.2 and 4.4) and marked so in the model map.                    *)
(*                                                                         *)
(* The emulator is one record `emu`; every method of the driver is an      *)
(* operator from emulator records to emulator records, and an action       *)
(* applies it.  runBatch is split at instruction boundaries: `call` holds  *)
(* the locals of the call in progress.                                     *)
(***************************************************************************)
EXTENDS Integers, Sequences, FiniteSets, TLC

VARIABLES
  emu,       \* the HBIOSEmulator object (driver, CPU registers, memory, HBIOS)
  call,      \* locals of the runBatch call in progress (or of the last one):
             \* count and i, and as history the number of instructions it
             \* executed and whether it resumed a suspended CIOIN
  console,   \* bytes handed to emu_console_write_char since the last start/reset
  pushed,    \* history: bytes pushed to the output ring since the last start/reset
  queued,    \* history: arguments of queueInput (and boot-string feed) since the
             \* input ring was last cleared
  observed,  \* history: bytes the CPU received from the input ring since then
  last,      \* history: the last operation performed
  loaded,    \* history: the image of the last successful loadROM
  writes,    \* history: instructions that changed RAM since that load
  bridge,    \* the RomWBWEmulator bridge object: the controlify mode
  disk_io,   \* the caller's side of disk I/O: status and sector buffer of the
             \* last call, and as history the attached images and the
             \* seek/write/seek/read sequence in progress
  cpm        \* the simple CP/M layer: its 64 KiB memory (the BIOS area) and
             \* the result of the last cpm_is_bios_trap call

vars == <<emu, call, console, pushed, queued, observed, last, loaded, writes,
          bridge, disk_io, cpm>>

-----------------------------------------------------------------------------
(* Bounds of the model *)

\* largest count argument of runBatch
MaxBatch == 2
\* instruction_count is tracked up to this value
MaxInstr == 3
\* queueInput calls between two clears of the input ring
MaxQueued == 2
\* bytes pushed to the output ring between two start()/reset() calls
MaxOut == 2
\* the program counter is tracked up to this value
MaxPC == 1
\* instructions that change RAM between two loadROM calls
MaxWrites == 2
\* boot feed plus characters typed after it
MaxBootQueued == 4
\* sector numbers given to seek: 0..MaxLba
MaxLba == 2

-----------------------------------------------------------------------------
(* Bytes and words *)

lo(w) == w % 256
hi(w) == w \div 256
with_lo(w, b) == hi(w) * 256 + b
with_hi(w, b) == b * 256 + lo(w)

\* character codes
LF == \h0A
CR == \h0D

\* HBIOSState
HBIOS_IDLE == "Idle"
HBIOS_NEEDS_INPUT == "NeedsInput"
HBIOS_HALTED == "Halted"

-----------------------------------------------------------------------------
(* banked_mem: 512 KiB ROM + 512 KiB RAM in 32 KiB banks.  A memory is a    *)
(* record [rom, ram, bank]; rom and ram map the physical offsets the model *)
(* tracks to bytes.                                                        *)

BANK_SIZE == \h8000
COMMON_BANK == \h0F

\* bit 7 of a bank byte selects RAM
is_ram_bank(b) == (b \div 128) % 2 = 1
\* the low nibble is the bank index
bank_index(b) == b % 16
bank_offset(b, addr) == bank_index(b) * BANK_SIZE + addr
common_offset(addr) == COMMON_BANK * BANK_SIZE + (addr - BANK_SIZE)

cell(f, p) == IF p \in DOMAIN f THEN f[p] ELSE 0
put(f, p, v) == IF p \in DOMAIN f THEN [f EXCEPT ![p] = v] ELSE f

read_bank(m, b, addr) ==
  IF addr >= BANK_SIZE THEN cell(m.ram, common_offset(addr))
  ELSE IF is_ram_bank(b) THEN cell(m.ram, bank_offset(b, addr))
  ELSE cell(m.rom, bank_offset(b, addr))

write_bank(m, b, addr, v) ==
  IF addr >= BANK_SIZE THEN [m EXCEPT !.ram = put(m.ram, common_offset(addr), v)]
  ELSE IF is_ram_bank(b) THEN [m EXCEPT !.ram = put(m.ram, bank_offset(b, addr), v)]
  ELSE m

fetch_mem(m, addr) == read_bank(m, m.bank, addr)
store_mem(m, addr, v) == write_bank(m, m.bank, addr, v)
select_bank(m, b) == [m EXCEPT !.bank = b]
get_current_bank(m) == m.bank
clear_ram(m) == [m EXCEPT !.ram = [p \in DOMAIN m.ram |-> 0]]

-----------------------------------------------------------------------------
(* HBIOSDispatch: dispatch state, input ring, output ring, blocking policy *)
(* and the reset callback.                                                 *)

hasInputChar(h) == h.input # <<>>
hasOutputChars(h) == h.output # <<>>

\* queueInputChar: append to the input ring; a pending NeedsInput is cleared
queueInputChar(h, ch) ==
  [h EXCEPT !.input = Append(@, ch % 256),
            !.state = IF @ = HBIOS_NEEDS_INPUT THEN HBIOS_IDLE ELSE @]

RECURSIVE queueInputChars(_, _)
queueInputChars(h, chars) ==
  IF chars = <<>> THEN h
  ELSE queueInputChars(queueInputChar(h, Head(chars)), Tail(chars))

\* readInputChar: pop the oldest byte, or -1 when the ring is empty
readInputChar(h) ==
  IF h.input = <<>> THEN [hbios |-> h, ch |-> -1]
  ELSE [hbios |-> [h EXCEPT !.input = Tail(@)], ch |-> Head(h.input)]

queueOutputChar(h, v) == [h EXCEPT !.output = Append(@, v)]

\* getOutputChars: the contents of the output ring, which is emptied
getOutputChars(h) == [hbios |-> [h EXCEPT !.output = <<>>], chars |-> h.output]

\* HBIOSDispatch::reset: both rings cleared, dispatch state Idle, no RAM
\* bank initialized by the dispatcher
hbios_reset(h) ==
  [h EXCEPT !.state = HBIOS_IDLE, !.input = <<>>, !.output = <<>>,
            !.initialized_banks = {}]

\* HBIOSDispatch::initMemoryDisks: the two memory disks, MD0 backed by RAM
\* and MD1 backed by ROM, are installed in the unit table
MemoryDisks == {"MD0", "MD1"}
initMemoryDisks(h) == [h EXCEPT !.memory_disks = MemoryDisks]

\* HBIOSDispatch::handlePRTSUM (the device summary of bank call 0x0406)
\* and HBIOSDispatch::handleSignalPort: of what the model holds of the
\* dispatcher, nothing is stated to change
handlePRTSUM(h) == h
handleSignalPort(h, value) == h

-----------------------------------------------------------------------------
(* Disk Store (owned by HBIOSDispatch): a table of 16 units.  The model    *)
(* keeps units 0 and 1.  A unit's data is its length in bytes and its      *)
(* whole 512-byte sectors in order, each sector held as one value; bytes   *)
(* after the last whole sector are not addressable by sector and only      *)
(* count in the length.                                                    *)

HB_MAX_DISKS == 16
SECTOR_SIZE == 512
DiskUnits == {0, 1}

DISK_OK == "OK"
DISK_OUT_OF_RANGE == "DiskOutOfRange"
DISK_NOT_PRESENT == "DiskNotPresent"
DISK_SECTOR_OUT_OF_RANGE == "DiskSectorOutOfRange"

NoData == [size |-> 0, data |-> <<>>]
NoDisk == [present |-> FALSE, data |-> NoData, slice_count |-> 1,
           position |-> 0, dirty |-> FALSE]

\* the unit's entry; units the model does not keep are absent
getDisk(h, u) == IF u \in DOMAIN h.disks THEN h.disks[u] ELSE NoDisk

hb_isDiskLoaded(h, u) == u >= 0 /\ u < HB_MAX_DISKS /\ getDisk(h, u).present

\* attach(u, bytes): install the blob, position 0, not dirty
hb_loadDisk(h, u, data, size) ==
  IF u < 0 \/ u >= HB_MAX_DISKS THEN [hbios |-> h, ok |-> FALSE]
  ELSE [hbios |-> [h EXCEPT !.disks =
                     IF u \in DOMAIN @
                     THEN [@ EXCEPT ![u] = [present |-> TRUE,
                                            data |-> [size |-> size, data |-> data],
                                            slice_count |-> 1,
                                            position |-> 0, dirty |-> FALSE]]
                     ELSE @],
        ok |-> TRUE]

hb_closeAllDisks(h) == [h EXCEPT !.disks = [u \in DOMAIN @ |-> NoDisk]]

\* loadDiskFromFile(u, path): attach what the file holds; a file that
\* cannot be read (size -1) attaches nothing
hb_loadDiskFromFile(h, u, file) ==
  IF file.size < 0 THEN [hbios |-> h, ok |-> FALSE]
  ELSE hb_loadDisk(h, u, file.data, file.size)

\* set_slice_count(u, n): how many slices of the image are visible
hb_setDiskSliceCount(h, u, n) ==
  IF u \in DOMAIN h.disks THEN [h EXCEPT !.disks[u].slice_count = n] ELSE h

\* TRUE when the sector at `position` lies wholly inside the data
sector_in_bounds(d) == (d.position + 1) * SECTOR_SIZE <= d.data.size

\* seek(u, lba): set the position; bounds are checked on access
disk_seek(h, u, lba) ==
  IF u < 0 \/ u >= HB_MAX_DISKS THEN [hbios |-> h, status |-> DISK_OUT_OF_RANGE]
  ELSE IF ~getDisk(h, u).present THEN [hbios |-> h, status |-> DISK_NOT_PRESENT]
  ELSE [hbios |-> [h EXCEPT !.disks[u].position = lba], status |-> DISK_OK]

\* read_sector(u, buf): on success buf receives the sector at `position`
\* and the position advances by one; on failure nothing changes
disk_read_sector(h, u, buf) ==
  IF u < 0 \/ u >= HB_MAX_DISKS
  THEN [hbios |-> h, status |-> DISK_OUT_OF_RANGE, buf |-> buf]
  ELSE LET d == getDisk(h, u) IN
       IF ~d.present THEN [hbios |-> h, status |-> DISK_NOT_PRESENT, buf |-> buf]
       ELSE IF ~sector_in_bounds(d)
       THEN [hbios |-> h, status |-> DISK_SECTOR_OUT_OF_RANGE, buf |-> buf]
       ELSE [hbios |-> [h EXCEPT !.disks[u].position = @ + 1],
             status |-> DISK_OK, buf |-> d.data.data[d.position + 1]]

\* write_sector(u, buf): on success the sector at `position` becomes buf,
\* the unit is dirty and the position advances by one
disk_write_sector(h, u, buf) ==
  IF u < 0 \/ u >= HB_MAX_DISKS THEN [hbios |-> h, status |-> DISK_OUT_OF_RANGE]
  ELSE LET d == getDisk(h, u) IN
       IF ~d.present THEN [hbios |-> h, status |-> DISK_NOT_PRESENT]
       ELSE IF ~sector_in_bounds(d)
       THEN [hbios |-> h, status |-> DISK_SECTOR_OUT_OF_RANGE]
       ELSE [hbios |-> [h EXCEPT !.disks[u].data.data[d.position + 1] = buf,
                                 !.disks[u].dirty = TRUE,
                                 !.disks[u].position = @ + 1],
             status |-> DISK_OK]

-----------------------------------------------------------------------------
(* CPU register file (the pairs the driver resets).  `unretired` marks that *)
(* PC addresses an OUT (0xEF) whose CIOIN did not complete, so that the     *)
(* next instruction executed is that dispatch again.                        *)

reg_A(e) == hi(e.cpu.AF)
reg_B(e) == hi(e.cpu.BC)
reg_C(e) == lo(e.cpu.BC)
reg_E(e) == lo(e.cpu.DE)

set_A(e, v) == [e EXCEPT !.cpu.AF = with_hi(@, v)]
set_E(e, v) == [e EXCEPT !.cpu.DE = with_lo(@, v)]
\* regs.PC.set_pair16: PC is loaded, whatever instruction was pending there
set_PC(e, v) == [e EXCEPT !.cpu.PC = v, !.cpu.unretired = FALSE]

next_pc(pc) == IF pc < MaxPC THEN pc + 1 ELSE pc

-----------------------------------------------------------------------------
(* HBIOSEmulator: RAM bank initialization, reset callback *)

\* mutant: the page is read through the bank selected at the time
initializeRamBankIfNeeded_from_current(e, bank) ==
  IF ~is_ram_bank(bank) \/ (bank \div 16) % 8 # 0 THEN e
  ELSE IF bank_index(bank) \in e.initialized_ram_banks THEN e
  ELSE LET copy(m, addr) == write_bank(m, bank, addr, fetch_mem(m, addr))
           RECURSIVE copy_range(_, _)
           copy_range(m, todo) ==
             IF todo = {} THEN m
             ELSE LET addr == CHOOSE a \in todo : \A b \in todo : a <= b
                  IN copy_range(copy(m, addr), todo \ {addr})
           page == {p - bank_offset(bank, 0) :
                      p \in {q \in DOMAIN e.memory.ram :
                               /\ q >= bank_offset(bank, 0)
                               /\ q < bank_offset(bank, \h0200)}}
       IN [e EXCEPT !.memory = copy_range(e.memory, page),
                    !.initialized_ram_banks = @ \cup {bank_index(bank)}]

\* mutant: the whole 32 KiB of ROM bank 0 is copied, not its first 512 bytes
initializeRamBankIfNeeded_whole_bank(e, bank) ==
  IF ~is_ram_bank(bank) \/ (bank \div 16) % 8 # 0 THEN e
  ELSE IF bank_index(bank) \in e.initialized_ram_banks THEN e
  ELSE LET copy(m, addr) == write_bank(m, bank, addr, read_bank(m, 0, addr))
           RECURSIVE copy_range(_, _)
           copy_range(m, todo) ==
             IF todo = {} THEN m
             ELSE LET addr == CHOOSE a \in todo : \A b \in todo : a <= b
                  IN copy_range(copy(m, addr), todo \ {addr})
           page == {p - bank_offset(bank, 0) :
                      p \in {q \in DOMAIN e.memory.ram :
                               /\ q >= bank_offset(bank, 0)
                               /\ q < bank_offset(bank, 0) + BANK_SIZE}}
       IN [e EXCEPT !.memory = copy_range(e.memory, page),
                    !.initialized_ram_banks = @ \cup {bank_index(bank)}]

\* mutant: the bank is never marked as initialized
initializeRamBankIfNeeded_unmarked(e, bank) ==
  IF ~is_ram_bank(bank) \/ (bank \div 16) % 8 # 0 THEN e
  ELSE IF bank_index(bank) \in e.initialized_ram_banks THEN e
  ELSE LET copy(m, addr) == write_bank(m, bank, addr, read_bank(m, 0, addr))
           RECURSIVE copy_range(_, _)
           copy_range(m, todo) ==
             IF todo = {} THEN m
             ELSE LET addr == CHOOSE a \in todo : \A b \in todo : a <= b
                  IN copy_range(copy(m, addr), todo \ {addr})
           page == {p - bank_offset(bank, 0) :
                      p \in {q \in DOMAIN e.memory.ram :
                               /\ q >= bank_offset(bank, 0)
                               /\ q < bank_offset(bank, \h0200)}}
       IN [e EXCEPT !.memory = copy_range(e.memory, page)]

\* mutant: bank 0x8F, whose lower half is the common area, is not initialized
initializeRamBankIfNeeded_below_common(e, bank) ==
  IF ~is_ram_bank(bank) \/ (bank \div 16) % 8 # 0 \/ bank_index(bank) = COMMON_BANK THEN e
  ELSE IF bank_index(bank) \in e.initialized_ram_banks THEN e
  ELSE LET copy(m, addr) == write_bank(m, bank, addr, read_bank(m, 0, addr))
           RECURSIVE copy_range(_, _)
           copy_range(m, todo) ==
             IF todo = {} THEN m
             ELSE LET addr == CHOOSE a \in todo : \A b \in todo : a <= b
                  IN copy_range(copy(m, addr), todo \ {addr})
           \* the tracked addresses of page zero and the HCB, 0x0000..0x01FF
           page == {p - bank_offset(bank, 0) :
                      p \in {q \in DOMAIN e.memory.ram :
                               /\ q >= bank_offset(bank, 0)
                               /\ q < bank_offset(bank, \h0200)}}
       IN [e EXCEPT !.memory = copy_range(e.memory, page),
                    !.initialized_ram_banks = @ \cup {bank_index(bank)}]

\* a second initialization of the same bank index is skipped by the bitmask
initializeRamBankIfNeeded(e, bank) ==
  IF ~is_ram_bank(bank) \/ (bank \div 16) % 8 # 0 THEN e
  ELSE IF bank_index(bank) \in e.initialized_ram_banks THEN e
  ELSE LET copy(m, addr) == write_bank(m, bank, addr, read_bank(m, 0, addr))
           RECURSIVE copy_range(_, _)
           copy_range(m, todo) ==
             IF todo = {} THEN m
             ELSE LET addr == CHOOSE a \in todo : \A b \in todo : a <= b
                  IN copy_range(copy(m, addr), todo \ {addr})
           \* the tracked addresses of page zero and the HCB, 0x0000..0x01FF
           page == {p - bank_offset(bank, 0) :
                      p \in {q \in DOMAIN e.memory.ram :
                               /\ q >= bank_offset(bank, 0)
                               /\ q < bank_offset(bank, \h0200)}}
       IN [e EXCEPT !.memory = copy_range(e.memory, page),
                    !.initialized_ram_banks = @ \cup {bank_index(bank)}]

\* mutant: the callback leaves the selected bank as it is
reset_callback_keeps_bank(e, reset_type) ==
  set_PC([e EXCEPT !.log = IF reset_type = 1 THEN "Warm" ELSE "Cold"], 0)

\* the callback start() registers for SYSRESET.  Its message,
\* "[SYSRESET] Warm boot - restarting" or "... Cold ...", is written with
\* emu_log: `log` holds the last text given to emu_log and `status` the
\* last text given to emu_status or emu_error.
reset_callback(e, reset_type) ==
  set_PC([e EXCEPT !.log = IF reset_type = 1 THEN "Warm" ELSE "Cold",
                   !.memory = select_bank(e.memory, 0)], 0)

-----------------------------------------------------------------------------
(* HBIOSDispatch::handlePortDispatch: B holds the function code.  `pc0` is *)
(* the address of the OUT (0xEF) being executed.                           *)

HBF_CIOIN == \h00
HBF_CIOOUT == \h01
HBF_CIOIST == \h02
HBF_CIOOST == \h03
HBF_SYSRESET == \hF0
HBF_SYSSETBNK == \hF2

handleCIOIN(e, pc0) ==
  LET r == readInputChar(e.hbios) IN
  IF r.ch >= 0 THEN set_A(set_E([e EXCEPT !.hbios = r.hbios], r.ch), 0)
  ELSE IF e.hbios.blocking_allowed THEN e
  ELSE [e EXCEPT !.hbios.state = HBIOS_NEEDS_INPUT,
                 !.cpu.PC = pc0, !.cpu.unretired = TRUE]

handleCIOOUT(e) == set_A([e EXCEPT !.hbios = queueOutputChar(@, reg_E(e))], 0)

handleCIOIST(e) == set_A(e, IF hasInputChar(e.hbios) THEN \hFF ELSE \h00)

handleCIOOST(e) == set_A(e, \hFF)

handleSYSRESET(e) ==
  IF e.hbios.reset_callback THEN reset_callback(e, reg_E(e)) ELSE e

\* the RAM-bank initialization of the SYSSETBNK handler: page zero and the
\* HCB, 0x0000..0x01FF, copied from ROM bank 0 on the first select the
\* handler sees.  The driver's initialized_ram_banks is private to the
\* driver, so which banks the handler has initialized is kept by the
\* dispatcher itself, in hbios.initialized_banks.
hb_initializeRamBank(e, bank) ==
  IF ~is_ram_bank(bank) \/ (bank \div 16) % 8 # 0 THEN e
  ELSE IF bank_index(bank) \in e.hbios.initialized_banks THEN e
  ELSE LET copy(m, addr) == write_bank(m, bank, addr, read_bank(m, 0, addr))
           RECURSIVE copy_range(_, _)
           copy_range(m, todo) ==
             IF todo = {} THEN m
             ELSE LET addr == CHOOSE a \in todo : \A b \in todo : a <= b
                  IN copy_range(copy(m, addr), todo \ {addr})
           page == {p - bank_offset(bank, 0) :
                      p \in {q \in DOMAIN e.memory.ram :
                               /\ q >= bank_offset(bank, 0)
                               /\ q < bank_offset(bank, \h0200)}}
       IN [e EXCEPT !.memory = copy_range(e.memory, page),
                    !.hbios.initialized_banks = @ \cup {bank_index(bank)}]

\* SYSSETBNK: program the bank register with C; the first select of a RAM
\* bank triggers its initialization
handleSYSSETBNK(e) ==
  LET e1 == hb_initializeRamBank(e, reg_C(e))
  IN set_A([e1 EXCEPT !.memory = select_bank(e1.memory, reg_C(e))], 0)

handlePortDispatch(e, pc0) ==
  LET func == reg_B(e) IN
  CASE func = HBF_CIOIN -> handleCIOIN(e, pc0)
    [] func = HBF_CIOOUT -> handleCIOOUT(e)
    [] func = HBF_CIOIST -> handleCIOIST(e)
    [] func = HBF_CIOOST -> handleCIOOST(e)
    [] func = HBF_SYSRESET -> handleSYSRESET(e)
    [] func = HBF_SYSSETBNK -> handleSYSSETBNK(e)
    [] OTHER -> e

-----------------------------------------------------------------------------
(* hbios_cpu: the callbacks the CPU makes into the driver *)

\* mutant: HALT reports the status and leaves running set
halt_keeps_running(e) == [e EXCEPT !.status = "HLT"]

halt(e) == [e EXCEPT !.status = "HLT", !.running = FALSE]

unimplemented_opcode(e) == [e EXCEPT !.status = "Unimplemented", !.running = FALSE]

\* mutant: reading the line status register consumes a character
port_in_status_consumes(e, port) ==
  CASE port \in {\h68, \h6D} ->
         LET r == readInputChar(e.hbios)
         IN [emu |-> [e EXCEPT !.hbios = r.hbios],
             value |-> IF port = \h6D THEN \h60 + (IF r.ch >= 0 THEN 1 ELSE 0)
                       ELSE IF r.ch >= 0 THEN r.ch % 256 ELSE 0]
    [] port \in {\h78, \h7C} ->
         [emu |-> e, value |-> get_current_bank(e.memory)]
    [] port = \hFE -> [emu |-> e, value |-> \h00]
    [] OTHER -> [emu |-> e, value |-> \hFF]

\* mutant: a data read on an empty ring suspends like CIOIN
port_in_empty_suspends(e, port) ==
  CASE port = \h68 ->
         LET r == readInputChar(e.hbios)
         IN [emu |-> [e EXCEPT !.hbios = IF r.ch >= 0 THEN r.hbios
                                         ELSE [r.hbios EXCEPT !.state = HBIOS_NEEDS_INPUT]],
             value |-> IF r.ch >= 0 THEN r.ch % 256 ELSE 0]
    [] port = \h6D ->
         [emu |-> e, value |-> \h60 + (IF hasInputChar(e.hbios) THEN 1 ELSE 0)]
    [] port \in {\h78, \h7C} ->
         [emu |-> e, value |-> get_current_bank(e.memory)]
    [] port = \hFE -> [emu |-> e, value |-> \h00]
    [] OTHER -> [emu |-> e, value |-> \hFF]

\* mutant: the line status has THRE but not TEMT
port_in_no_temt(e, port) ==
  CASE port = \h68 ->
         LET r == readInputChar(e.hbios)
         IN [emu |-> [e EXCEPT !.hbios = r.hbios],
             value |-> IF r.ch >= 0 THEN r.ch % 256 ELSE 0]
    [] port = \h6D ->
         [emu |-> e, value |-> \h20 + (IF hasInputChar(e.hbios) THEN 1 ELSE 0)]
    [] port \in {\h78, \h7C} ->
         [emu |-> e, value |-> get_current_bank(e.memory)]
    [] port = \hFE -> [emu |-> e, value |-> \h00]
    [] OTHER -> [emu |-> e, value |-> \hFF]

\* port_in: the emulator after the read, and the byte returned
port_in(e, port) ==
  CASE port = \h68 ->
         LET r == readInputChar(e.hbios)
         IN [emu |-> [e EXCEPT !.hbios = r.hbios],
             value |-> IF r.ch >= 0 THEN r.ch % 256 ELSE 0]
    [] port = \h6D ->
         [emu |-> e, value |-> \h60 + (IF hasInputChar(e.hbios) THEN 1 ELSE 0)]
    [] port \in {\h78, \h7C} ->
         [emu |-> e, value |-> get_current_bank(e.memory)]
    [] port = \hFE -> [emu |-> e, value |-> \h00]
    [] OTHER -> [emu |-> e, value |-> \hFF]

\* mutant: a destination at or above 0x8000 is written into dst_bank's window
bnkcpy_byte_dst_banked(m, src_bank, dst_bank, src_addr, dst_addr, i) ==
  LET s_addr == (src_addr + i) % 65536
      d_addr == (dst_addr + i) % 65536
      byte == IF s_addr >= \h8000 THEN fetch_mem(m, s_addr)
              ELSE read_bank(m, src_bank, s_addr)
  IN write_bank(m, dst_bank, d_addr % BANK_SIZE, byte)

\* mutant: the bank bytes at 0xFFE4 and 0xFFE7 are read again for every byte
bnkcpy_byte_rereads_banks(m, src_bank, dst_bank, src_addr, dst_addr, i) ==
  LET s_addr == (src_addr + i) % 65536
      d_addr == (dst_addr + i) % 65536
      byte == IF s_addr >= \h8000 THEN fetch_mem(m, s_addr)
              ELSE read_bank(m, fetch_mem(m, \hFFE4), s_addr)
  IN IF d_addr >= \h8000 THEN store_mem(m, d_addr, byte)
     ELSE write_bank(m, fetch_mem(m, \hFFE7), d_addr, byte)

\* one iteration of the copy loop of port 0xEC
bnkcpy_byte(m, src_bank, dst_bank, src_addr, dst_addr, i) ==
  LET s_addr == (src_addr + i) % 65536
      d_addr == (dst_addr + i) % 65536
      byte == IF s_addr >= \h8000 THEN fetch_mem(m, s_addr)
              ELSE read_bank(m, src_bank, s_addr)
  IN IF d_addr >= \h8000 THEN store_mem(m, d_addr, byte)
     ELSE write_bank(m, dst_bank, d_addr, byte)

\* the RAM offset that address a names under bank byte b, or -1 for ROM
ram_offset(b, a) ==
  IF a >= BANK_SIZE THEN common_offset(a)
  ELSE IF is_ram_bank(b) THEN bank_offset(b, a)
  ELSE -1

\* the iterations i < length whose destination (dst_addr + i) mod 2^16 is
\* RAM offset p
bnkcpy_writers(dst_bank, dst_addr, length, p) ==
  {i \in {(a - dst_addr) % 65536 : a \in {p % BANK_SIZE, BANK_SIZE + (p % BANK_SIZE)}} :
     i < length /\ ram_offset(dst_bank, (dst_addr + i) % 65536) = p}

\* the iterations in `todo` and, for each, the latest earlier iteration
\* that stored the byte it reads, and so on back
RECURSIVE bnkcpy_needed(_, _, _, _, _, _)
bnkcpy_needed(src_bank, dst_bank, src_addr, dst_addr, length, todo) ==
  IF todo = {} THEN {}
  ELSE LET earlier(i) ==
             {j \in bnkcpy_writers(dst_bank, dst_addr, length,
                                   ram_offset(src_bank, (src_addr + i) % 65536)) : j < i}
           feeders == {CHOOSE j \in earlier(i) : \A k \in earlier(i) : k <= j :
                         i \in {n \in todo : earlier(n) # {}}}
       IN todo \cup bnkcpy_needed(src_bank, dst_bank, src_addr, dst_addr, length, feeders)

\* the iterations of `for (uint16_t i = 0; i < length; i++)` that decide a
\* tracked byte: the last one to store to each tracked offset and the
\* iterations that fed it.  The others change nothing the model holds.
bnkcpy_deciding(m, src_bank, dst_bank, src_addr, dst_addr, length) ==
  LET writers(p) == bnkcpy_writers(dst_bank, dst_addr, length, p)
      final == {CHOOSE i \in writers(p) : \A k \in writers(p) : k <= i :
                 p \in {q \in DOMAIN m.ram : writers(q) # {}}}
  IN bnkcpy_needed(src_bank, dst_bank, src_addr, dst_addr, length, final)

\* the memory with the RAM offsets those iterations store to held as well
\* (zero where the model does not track them), so that a byte the copy
\* stored is what a later iteration of the same copy reads
bnkcpy_scratch(m, dst_bank, dst_addr, its) ==
  [m EXCEPT !.ram =
     [p \in DOMAIN m.ram
            \cup ({ram_offset(dst_bank, (dst_addr + i) % 65536) : i \in its} \ {-1}) |->
        cell(m.ram, p)]]

\* the loop, run in increasing i over the iterations `todo`
RECURSIVE bnkcpy_loop(_, _, _, _, _, _)
bnkcpy_loop(m, src_bank, dst_bank, src_addr, dst_addr, todo) ==
  IF todo = {} THEN m
  ELSE LET i == CHOOSE k \in todo : \A j \in todo : k <= j
       IN bnkcpy_loop(bnkcpy_byte(m, src_bank, dst_bank, src_addr, dst_addr, i),
                      src_bank, dst_bank, src_addr, dst_addr, todo \ {i})

\* mutant: the loop stops one byte short
bnkcpy_short(m, src_bank, dst_bank, src_addr, dst_addr, length) ==
  LET its == bnkcpy_deciding(m, src_bank, dst_bank, src_addr, dst_addr, length - 1)
      r == bnkcpy_loop(bnkcpy_scratch(m, dst_bank, dst_addr, its),
                       src_bank, dst_bank, src_addr, dst_addr, its)
  IN [r EXCEPT !.ram = [p \in DOMAIN m.ram |-> r.ram[p]]]

\* the copy of port 0xEC; of the result the tracked offsets are kept
bnkcpy(m, src_bank, dst_bank, src_addr, dst_addr, length) ==
  LET its == bnkcpy_deciding(m, src_bank, dst_bank, src_addr, dst_addr, length)
      r == bnkcpy_loop(bnkcpy_scratch(m, dst_bank, dst_addr, its),
                       src_bank, dst_bank, src_addr, dst_addr, its)
  IN [r EXCEPT !.ram = [p \in DOMAIN m.ram |-> r.ram[p]]]

port_out(e, port, value, pc0) ==
  CASE port \in {\h78, \h7C} ->
         LET e1 == initializeRamBankIfNeeded(e, value)
         IN [e1 EXCEPT !.memory = select_bank(e1.memory, value)]
    [] port = \hEC ->
         [e EXCEPT !.memory = bnkcpy(e.memory, fetch_mem(e.memory, \hFFE4),
                                     fetch_mem(e.memory, \hFFE7),
                                     e.cpu.HL, e.cpu.DE, e.cpu.BC)]
    \* bank call: IX holds the call address; 0x0406 is PRTSUM
    [] port = \hED ->
         IF e.cpu.IX = \h0406 THEN [e EXCEPT !.hbios = handlePRTSUM(@)] ELSE e
    [] port = \h68 -> [e EXCEPT !.hbios = queueOutputChar(@, value)]
    [] port = \hEE -> [e EXCEPT !.hbios = handleSignalPort(@, value)]
    [] port = \hEF -> handlePortDispatch(e, pc0)
    [] OTHER -> e

-----------------------------------------------------------------------------
(* qkz80::execute, for the instructions the model draws programs from.     *)
(* An instruction is a record [op, ...]; PC moves past it before it acts.  *)

execute(e, ins) ==
  LET pc0 == e.cpu.PC
      e0 == [e EXCEPT !.cpu.PC = next_pc(pc0), !.cpu.unretired = FALSE]
  IN CASE ins.op = "NOP" -> e0
       [] ins.op = "HALT" -> halt(e0)
       [] ins.op = "UNIMPL" -> unimplemented_opcode(e0)
       [] ins.op = "LD_A" -> set_A(e0, ins.v)
       [] ins.op = "LD_BC" -> [e0 EXCEPT !.cpu.BC = ins.v]
       [] ins.op = "LD_DE" -> [e0 EXCEPT !.cpu.DE = ins.v]
       [] ins.op = "LD_HL" -> [e0 EXCEPT !.cpu.HL = ins.v]
       [] ins.op = "LD_IX" -> [e0 EXCEPT !.cpu.IX = ins.v]
       \* LD (HL),n
       [] ins.op = "ST_N" -> [e0 EXCEPT !.memory = store_mem(@, e0.cpu.HL, ins.v)]
       \* IN A,(n)
       [] ins.op = "IN" -> LET r == port_in(e0, ins.port) IN set_A(r.emu, r.value)
       \* OUT (n),A
       [] ins.op = "OUT" -> port_out(e0, ins.port, reg_A(e0), pc0)

-----------------------------------------------------------------------------
(* HBIOSEmulator: the host-facing operations *)

\* mutant: reset of a running emulator only stops it
reset_stop_first(e) ==
  IF e.running THEN [e EXCEPT !.running = FALSE]
  ELSE LET e1 == [e EXCEPT !.waiting_for_input = FALSE,
                           !.instruction_count = 0,
                           !.boot_string_pos = 0,
                           !.initialized_ram_banks = {},
                           !.hbios = hbios_reset(@),
                           !.cpu.AF = 0, !.cpu.BC = 0, !.cpu.DE = 0,
                           !.cpu.HL = 0, !.cpu.SP = 0]
       IN [set_PC(e1, 0) EXCEPT !.memory = select_bank(e1.memory, 0)]

reset(e) ==
  LET e1 == [e EXCEPT !.running = FALSE,
                      !.waiting_for_input = FALSE,
                      !.instruction_count = 0,
                      !.boot_string_pos = 0,
                      !.initialized_ram_banks = {},
                      !.hbios = hbios_reset(@),
                      !.cpu.AF = 0, !.cpu.BC = 0, !.cpu.DE = 0,
                      !.cpu.HL = 0, !.cpu.SP = 0]
  IN [set_PC(e1, 0) EXCEPT !.memory = select_bank(e1.memory, 0)]

ROM_SIZE == 524288

\* a null pointer passed as data: a function defined at no offset of an
\* image, told apart by the offset -1
nullptr == [p \in {-1} |-> 0]
is_null(data) == -1 \in DOMAIN data

\* banked_mem::get_rom: the ROM array; enable_banking() has allocated it
get_rom(m) == m.rom

\* mutant: an image of more than 512 KiB is refused
loadROM_ok_refuses_oversized(data, size) ==
  ~is_null(data) /\ size # 0 /\ size <= ROM_SIZE

\* loadROM(data, size): data maps offsets below size to bytes
loadROM_ok(data, size) == ~is_null(data) /\ size # 0

\* mutant: CB_APITYPE is left as the image has it
loadROM_unpatched(e, data, size) ==
  IF ~loadROM_ok(data, size) THEN [e EXCEPT !.status = "ROM data is null or empty"]
  ELSE IF is_null(get_rom(e.memory)) THEN [e EXCEPT !.status = "ROM memory not allocated"]
  ELSE LET m0 == clear_ram(e.memory)
           copy_size == IF size > ROM_SIZE THEN ROM_SIZE ELSE size
           rom1 == [p \in DOMAIN m0.rom |-> IF p < copy_size THEN data[p] ELSE m0.rom[p]]
           ram1 == [p \in DOMAIN m0.ram |-> IF p < 512 THEN cell(rom1, p) ELSE m0.ram[p]]
       IN [e EXCEPT !.memory = [m0 EXCEPT !.rom = rom1, !.ram = ram1],
                    !.log = "ROM loaded"]

\* mutant: RAM bank 0 takes its first 512 bytes before CB_APITYPE is patched
loadROM_hcb_before_patch(e, data, size) ==
  IF ~loadROM_ok(data, size) THEN [e EXCEPT !.status = "ROM data is null or empty"]
  ELSE IF is_null(get_rom(e.memory)) THEN [e EXCEPT !.status = "ROM memory not allocated"]
  ELSE LET m0 == clear_ram(e.memory)
           copy_size == IF size > ROM_SIZE THEN ROM_SIZE ELSE size
           rom1 == [p \in DOMAIN m0.rom |-> IF p < copy_size THEN data[p] ELSE m0.rom[p]]
           rom2 == put(rom1, \h0112, \h00)
           ram1 == [p \in DOMAIN m0.ram |-> IF p < 512 THEN cell(rom1, p) ELSE m0.ram[p]]
       IN [e EXCEPT !.memory = [m0 EXCEPT !.rom = rom2, !.ram = ram1],
                    !.log = "ROM loaded"]

loadROM(e, data, size) ==
  IF ~loadROM_ok(data, size) THEN [e EXCEPT !.status = "ROM data is null or empty"]
  ELSE IF is_null(get_rom(e.memory)) THEN [e EXCEPT !.status = "ROM memory not allocated"]
  ELSE LET m0 == clear_ram(e.memory)
           copy_size == IF size > ROM_SIZE THEN ROM_SIZE ELSE size
           rom1 == [p \in DOMAIN m0.rom |-> IF p < copy_size THEN data[p] ELSE m0.rom[p]]
           rom2 == put(rom1, \h0112, \h00)
           ram1 == [p \in DOMAIN m0.ram |-> IF p < 512 THEN cell(rom2, p) ELSE m0.ram[p]]
       IN [e EXCEPT !.memory = [m0 EXCEPT !.rom = rom2, !.ram = ram1],
                    !.log = "ROM loaded"]

\* a path at which emu_file_load finds no readable file
NoFile == [size |-> -1, data |-> nullptr]

\* loadROMFromFile: `file` is what emu_file_load reads at the path
loadROMFromFile(e, file) ==
  IF file = NoFile THEN e ELSE loadROM(e, file.data, file.size)

loadROMFromFile_ok(file) == file # NoFile /\ loadROM_ok(file.data, file.size)

\* loadDisk: the emulator afterwards and the result
loadDisk(e, unit, data, size) ==
  LET r == hb_loadDisk(e.hbios, unit, data, size)
  IN [emu |-> [e EXCEPT !.hbios = r.hbios], ok |-> r.ok]

\* mutant: the data of unit 0 is returned whatever unit is asked for
getDiskData_unit_zero(e, unit) ==
  IF ~hb_isDiskLoaded(e.hbios, unit) THEN NoData.data
  ELSE getDisk(e.hbios, 0).data.data

\* getDiskData: the unit's sectors (nullptr, here no data, when not loaded)
getDiskData(e, unit) ==
  IF ~hb_isDiskLoaded(e.hbios, unit) THEN NoData.data
  ELSE getDisk(e.hbios, unit).data.data

\* mutant: the size is reported in whole sectors, rounded up
getDiskSize_rounded(e, unit) ==
  IF ~hb_isDiskLoaded(e.hbios, unit) THEN 0
  ELSE ((getDisk(e.hbios, unit).data.size + SECTOR_SIZE - 1) \div SECTOR_SIZE) * SECTOR_SIZE

getDiskSize(e, unit) ==
  IF ~hb_isDiskLoaded(e.hbios, unit) THEN 0
  ELSE getDisk(e.hbios, unit).data.size

isDiskLoaded(e, unit) == hb_isDiskLoaded(e.hbios, unit)

closeAllDisks(e) == [e EXCEPT !.hbios = hb_closeAllDisks(@)]

\* loadDiskFromFile: `file` is what the dispatcher reads at the path
loadDiskFromFile(e, unit, file) ==
  LET r == hb_loadDiskFromFile(e.hbios, unit, file)
  IN [emu |-> [e EXCEPT !.hbios = r.hbios], ok |-> r.ok]

setDiskSliceCount(e, unit, slices) ==
  [e EXCEPT !.hbios = hb_setDiskSliceCount(@, unit, slices)]

\* mutant: the character goes to the driver's own input_queue, not to HBIOS
queueInput_local_queue(e, ch) == [e EXCEPT !.waiting_for_input = FALSE]

\* mutant: the character is queued as given, LF included
queueInput_raw(e, ch) ==
  [e EXCEPT !.hbios = queueInputChar(@, ch),
            !.waiting_for_input = FALSE]

\* mutant: the waiting flag is left as it was
queueInput_keeps_waiting(e, ch) ==
  LET c == IF ch = LF THEN CR ELSE ch
  IN [e EXCEPT !.hbios = queueInputChar(@, c)]

queueInput(e, ch) ==
  LET c == IF ch = LF THEN CR ELSE ch
  IN [e EXCEPT !.hbios = queueInputChar(@, c),
               !.waiting_for_input = FALSE]

hasInput(e) == hasInputChar(e.hbios) \/ e.boot_string_pos < Len(e.boot_string)

setBootString(e, str) == [e EXCEPT !.boot_string = str, !.boot_string_pos = 0]

\* mutant: the boot string is fed without the closing CR
start_boot_without_cr(e) ==
  LET e1 == [e EXCEPT !.hbios = [initMemoryDisks(hbios_reset(@))
                                   EXCEPT !.reset_callback = TRUE],
                      !.cpu.AF = 0, !.cpu.BC = 0, !.cpu.DE = 0,
                      !.cpu.HL = 0, !.cpu.SP = 0]
      e2 == [set_PC(e1, 0) EXCEPT !.memory = select_bank(e1.memory, 0),
                                  !.running = TRUE,
                                  !.waiting_for_input = FALSE,
                                  !.instruction_count = 0]
  IN IF e2.boot_string # <<>>
     THEN [e2 EXCEPT !.hbios = queueInputChars(@, e2.boot_string)]
     ELSE e2

start(e) ==
  LET e1 == [e EXCEPT !.hbios = [initMemoryDisks(hbios_reset(@))
                                   EXCEPT !.reset_callback = TRUE],
                      !.cpu.AF = 0, !.cpu.BC = 0, !.cpu.DE = 0,
                      !.cpu.HL = 0, !.cpu.SP = 0]
      e2 == [set_PC(e1, 0) EXCEPT !.memory = select_bank(e1.memory, 0),
                                  !.running = TRUE,
                                  !.waiting_for_input = FALSE,
                                  !.instruction_count = 0]
  IN IF e2.boot_string # <<>>
     THEN [e2 EXCEPT !.hbios = queueInputChar(queueInputChars(@, e2.boot_string), CR)]
     ELSE e2

stop(e) == [e EXCEPT !.running = FALSE]

isRunning(e) == e.running
isWaitingForInput(e) == e.waiting_for_input
clearWaitingForInput(e) == [e EXCEPT !.waiting_for_input = FALSE]

-----------------------------------------------------------------------------
(* runBatch(count), split at instruction boundaries.                       *)
(*   runBatch_enter : the checks before the loop                           *)
(*   runBatch_body  : one iteration of the loop whose condition holds      *)
(*   runBatch_drain : the output poll after the loop                       *)

\* TRUE when the call returns before the loop
runBatch_returns_early(e) ==
  ~e.running \/ e.hbios.state = HBIOS_NEEDS_INPUT

runBatch_enter(e) ==
  IF ~e.running THEN e
  ELSE IF e.hbios.state = HBIOS_NEEDS_INPUT THEN [e EXCEPT !.waiting_for_input = TRUE]
  ELSE [e EXCEPT !.waiting_for_input = FALSE]

\* mutant: the loop bound off by one
runBatch_continues_off_by_one(e, c) == c.i <= c.count /\ e.running

\* mutant: the loop runs to its count whatever `running` says
runBatch_continues_ignores_stop(e, c) == c.i < c.count

\* the loop condition: i < count && running
runBatch_continues(e, c) == c.i < c.count /\ e.running

\* instruction_count++, within the range the model tracks
count_up(n) == IF n < MaxInstr THEN n + 1 ELSE n

\* cpu.execute(); instruction_count++; then the state check.
\* The result says whether the loop was left by break.
runBatch_body(e, ins) ==
  LET e1 == execute(e, ins)
      e2 == [e1 EXCEPT !.instruction_count = count_up(@)]
      state == e2.hbios.state
  IN IF state = HBIOS_NEEDS_INPUT
     THEN [emu |-> [e2 EXCEPT !.waiting_for_input = TRUE], break |-> TRUE]
     ELSE IF state = HBIOS_HALTED
     THEN [emu |-> [e2 EXCEPT !.running = FALSE], break |-> TRUE]
     ELSE [emu |-> e2, break |-> FALSE]

\* the bytes written to the console and the emulator afterwards
runBatch_drain(e) ==
  IF hasOutputChars(e.hbios)
  THEN LET r == getOutputChars(e.hbios)
       IN [emu |-> [e EXCEPT !.hbios = r.hbios], chars |-> r.chars]
  ELSE [emu |-> e, chars |-> <<>>]

\* mutant: `return` in place of `break` skips the output poll
runBatch_after_break_returns(e) == [emu |-> e, chars |-> <<>>]

\* leaving the loop by break continues at the output poll
runBatch_after_break(e) == runBatch_drain(e)

-----------------------------------------------------------------------------
(* Construction *)

\* HBIOSEmulator::HBIOSEmulator over the tracked ROM and RAM offsets
HBIOSEmulator(rom_offsets, ram_offsets) ==
  reset([running |-> FALSE,
         waiting_for_input |-> FALSE,
         instruction_count |-> 0,
         boot_string |-> <<>>,
         boot_string_pos |-> 0,
         initialized_ram_banks |-> {},
         memory |-> [rom |-> [p \in rom_offsets |-> 0],
                     ram |-> [p \in ram_offsets |-> 0],
                     bank |-> 0],
         cpu |-> [AF |-> 0, BC |-> 0, DE |-> 0, HL |-> 0, IX |-> 0, PC |-> 0,
                  SP |-> 0, unretired |-> FALSE],
         hbios |-> [state |-> HBIOS_IDLE, input |-> <<>>, output |-> <<>>,
                    blocking_allowed |-> FALSE, reset_callback |-> FALSE,
                    memory_disks |-> {},
                    initialized_banks |-> {},
                    disks |-> [u \in DiskUnits |-> NoDisk]],
         status |-> "",
         log |-> ""])

NoIns == [op |-> "none"]
NoImage == [size |-> 0, data |-> <<>>]
NoCall == [active |-> FALSE, count |-> 0, i |-> 0, executed |-> 0, resumed |-> FALSE]

\* RWBControlifyMode
RWBControlifyOff == 0
RWBControlifyOneChar == 1
RWBControlifySticky == 2

\* RomWBWEmulator (bridge) after init
RomWBWEmulator == [controlify |-> RWBControlifyOff]

setControlify(b, mode) == [b EXCEPT !.controlify = mode]

getControlify(b) == b.controlify

\* the Ctrl-equivalent of '@'..'_' and 'a'..'z': the low five bits
ctrl_equivalent(ch) ==
  IF (ch >= \h40 /\ ch <= \h5F) \/ (ch >= \h61 /\ ch <= \h7A) THEN ch % 32 ELSE ch

\* the character the bridge hands to the driver
controlified(b, ch) ==
  IF b.controlify = RWBControlifyOff THEN ch ELSE ctrl_equivalent(ch)

\* sendCharacter: filter by the mode, clear a one-character mode, queue
sendCharacter(b, e, ch) ==
  [bridge |-> IF b.controlify = RWBControlifyOneChar
              THEN [b EXCEPT !.controlify = RWBControlifyOff] ELSE b,
   emu |-> queueInput(e, controlified(b, ch))]

NoRoundTrip == [phase |-> "none", unit |-> 0, s0 |-> 0, written |-> <<>>, read |-> <<>>]
NoDiskIo == [status |-> DISK_OK, buf |-> 0,
             attached |-> [u \in DiskUnits |-> NoData],
             rt |-> NoRoundTrip]

-----------------------------------------------------------------------------
(* CPMBios: the BIOS tables of the simple CP/M layer.  The memory is the   *)
(* part of the 64 KiB from 0xF5F0 to 0xF7DF, which holds every byte        *)
(* cpm_init_bios writes and some bytes on either side.                     *)

BIOS_BASE == \hF600
XLTTAB_ADDR == \hF633
DPB0_ADDR == \hF64D
DPH0_ADDR == \hF65C
DPH1_ADDR == \hF66C
DPH2_ADDR == \hF67C
DPH3_ADDR == \hF68C
DIRBUF_ADDR == \hF69C
CSV0_ADDR == \hF71C
ALV0_ADDR == \hF75C

BiosArea == \hF5F0 .. \hF7DF

xlttab == <<1, 7, 13, 19, 25, 5, 11, 17, 23, 3, 9, 15, 21,
            2, 8, 14, 20, 26, 6, 12, 18, 24, 4, 10, 16, 22>>

\* mem with the bytes of `bytes` stored from addr on (memcpy)
cpm_store(mem, addr, bytes) ==
  [a \in DOMAIN mem |->
     IF a >= addr /\ a < addr + Len(bytes) THEN bytes[a - addr + 1] ELSE mem[a]]

\* memset(&mem[addr], v, n)
cpm_fill(mem, addr, v, n) ==
  [a \in DOMAIN mem |-> IF a >= addr /\ a < addr + n THEN v ELSE mem[a]]

\* the jump table: entry i is JMP to its own address
RECURSIVE cpm_jump_table(_, _)
cpm_jump_table(mem, i) ==
  IF i >= 17 THEN mem
  ELSE LET addr == BIOS_BASE + i * 3
       IN cpm_jump_table(cpm_store(mem, addr, <<\hC3, addr % 256, addr \div 256>>),
                         i + 1)

\* the disk parameter block for 8" SSSD
cpm_dpb == <<26, 0, 3, 7, 0, 242, 0, 63, 0, \hC0, 0, 16, 0, 2, 0>>

\* mutant: the allocation vectors are taken to be 32 bytes apart
cpm_dph_alv_stride_32(drive) ==
  LET csv == CSV0_ADDR + drive * 16
      alv == ALV0_ADDR + drive * 32
  IN <<0, 0, 0, 0, 0, 0, 0, 0,
       DIRBUF_ADDR % 256, DIRBUF_ADDR \div 256,
       DPB0_ADDR % 256, DPB0_ADDR \div 256,
       csv % 256, csv \div 256,
       alv % 256, alv \div 256>>

\* the 16 bytes of the disk parameter header of `drive`
cpm_dph(drive) ==
  LET csv == CSV0_ADDR + drive * 16
      alv == ALV0_ADDR + drive * 31
  IN <<0, 0, 0, 0, 0, 0, 0, 0,
       DIRBUF_ADDR % 256, DIRBUF_ADDR \div 256,
       DPB0_ADDR % 256, DPB0_ADDR \div 256,
       csv % 256, csv \div 256,
       alv % 256, alv \div 256>>

dph_addrs == <<DPH0_ADDR, DPH1_ADDR, DPH2_ADDR, DPH3_ADDR>>

RECURSIVE cpm_dphs(_, _)
cpm_dphs(mem, drive) ==
  IF drive >= 4 THEN mem
  ELSE cpm_dphs(cpm_store(mem, dph_addrs[drive + 1], cpm_dph(drive)), drive + 1)

cpm_init_bios(mem) ==
  LET m1 == cpm_jump_table(mem, 0)
      m2 == cpm_store(m1, XLTTAB_ADDR, xlttab)
      m3 == cpm_store(m2, DPB0_ADDR, cpm_dpb)
      m4 == cpm_dphs(m3, 0)
      m5 == cpm_fill(m4, DIRBUF_ADDR, 0, 128)
      m6 == cpm_fill(m5, CSV0_ADDR, 0, 64)
  IN cpm_fill(m6, ALV0_ADDR, 0, 124)

cpm_is_bios_trap(pc) == pc >= BIOS_BASE /\ pc < BIOS_BASE + \h33

\* the CP/M layer with every byte of its memory equal to v
CpmWith(v) == [memory |-> [a \in BiosArea |-> v], trap |-> FALSE]

\* the specifications of the HBIOS driver track none of the CP/M memory
NoCpm == [memory |-> <<>>, trap |-> FALSE]

InitWith(rom_offsets, ram_offsets) ==
  /\ emu = HBIOSEmulator(rom_offsets, ram_offsets)
  /\ call = NoCall
  /\ console = <<>>
  /\ pushed = <<>>
  /\ queued = <<>>
  /\ observed = <<>>
  /\ last = [op |-> "new", ins |-> NoIns, arg |-> 0]
  /\ loaded = NoImage
  /\ writes = 0
  /\ bridge = RomWBWEmulator
  /\ disk_io = NoDiskIo
  /\ cpm = NoCpm

-----------------------------------------------------------------------------
(* Actions.  The host calls the driver from one thread: no host call is    *)
(* made while a runBatch call is in progress.                              *)

Reset ==
  /\ ~call.active
  /\ emu' = reset(emu)
  /\ console' = <<>> /\ pushed' = <<>> /\ queued' = <<>> /\ observed' = <<>>
  /\ last' = [op |-> "reset", ins |-> NoIns, arg |-> 0]
  /\ UNCHANGED <<cpm, bridge, disk_io, call, loaded, writes>>

Start ==
  /\ ~call.active
  /\ emu' = start(emu)
  /\ console' = <<>> /\ pushed' = <<>> /\ observed' = <<>>
  /\ queued' = IF emu.boot_string # <<>> THEN Append(emu.boot_string, CR) ELSE <<>>
  /\ last' = [op |-> "start", ins |-> NoIns, arg |-> 0]
  /\ UNCHANGED <<cpm, bridge, disk_io, call, loaded, writes>>

Stop ==
  /\ ~call.active
  /\ emu' = stop(emu)
  /\ last' = [op |-> "stop", ins |-> NoIns, arg |-> 0]
  /\ UNCHANGED <<cpm, bridge, disk_io, call, console, pushed, queued, observed, loaded, writes>>

\* a call with the flag already clear changes nothing and is left out
ClearWaitingForInput ==
  /\ ~call.active
  /\ isWaitingForInput(emu)
  /\ emu' = clearWaitingForInput(emu)
  /\ last' = [op |-> "clearWaitingForInput", ins |-> NoIns, arg |-> 0]
  /\ UNCHANGED <<cpm, bridge, disk_io, call, console, pushed, queued, observed, loaded, writes>>

QueueInput(ch) ==
  /\ ~call.active
  /\ Len(queued) < MaxQueued
  /\ emu' = queueInput(emu, ch)
  /\ queued' = Append(queued, ch)
  /\ last' = [op |-> "queueInput", ins |-> NoIns, arg |-> ch]
  /\ UNCHANGED <<cpm, bridge, disk_io, call, console, pushed, observed, loaded, writes>>

RunBatch(count) ==
  /\ ~call.active
  /\ emu' = runBatch_enter(emu)
  /\ call' = [active |-> ~runBatch_returns_early(emu),
              count |-> count, i |-> 0, executed |-> 0,
              resumed |-> emu.cpu.unretired]
  /\ last' = [op |-> "runBatch", ins |-> NoIns, arg |-> count]
  /\ UNCHANGED <<cpm, bridge, disk_io, console, pushed, queued, observed, loaded, writes>>

\* loadROM with one of the images; img.size = 0 is the empty image
LoadROM(img) ==
  /\ ~call.active
  /\ emu' = loadROM(emu, img.data, img.size)
  /\ loaded' = IF loadROM_ok(img.data, img.size) THEN img ELSE loaded
  /\ writes' = IF loadROM_ok(img.data, img.size) THEN 0 ELSE writes
  /\ last' = [op |-> "loadROM", ins |-> NoIns, arg |-> img.size]
  /\ UNCHANGED <<cpm, bridge, disk_io, call, console, pushed, queued, observed>>

LoadROMFromFile(file) ==
  /\ ~call.active
  /\ emu' = loadROMFromFile(emu, file)
  /\ loaded' = IF loadROMFromFile_ok(file) THEN file ELSE loaded
  /\ writes' = IF loadROMFromFile_ok(file) THEN 0 ELSE writes
  /\ last' = [op |-> "loadROMFromFile", ins |-> NoIns, arg |-> file.size]
  /\ UNCHANGED <<cpm, bridge, disk_io, call, console, pushed, queued, observed>>

\* the bytes `ins` took from the input ring, as the CPU received them
received(e0, e1, ins) ==
  IF Len(e1.hbios.input) < Len(e0.hbios.input)
  THEN <<IF ins.op = "IN" THEN reg_A(e1) ELSE reg_E(e1)>>
  ELSE <<>>

\* the bytes `ins` pushed to the output ring
emitted(e0, e1) ==
  SubSeq(e1.hbios.output, Len(e0.hbios.output) + 1, Len(e1.hbios.output))

\* one loop iteration; after a break the output poll follows at once
Execute(ins) ==
  /\ call.active
  /\ runBatch_continues(emu, call)
  /\ LET r == runBatch_body(emu, ins)
         d == runBatch_after_break(r.emu)
         w == writes + (IF r.emu.memory.ram # emu.memory.ram THEN 1 ELSE 0)
     IN /\ Len(pushed) + Len(emitted(emu, r.emu)) <= MaxOut
        /\ w <= MaxWrites
        /\ writes' = w
        /\ pushed' = pushed \o emitted(emu, r.emu)
        /\ observed' = observed \o received(emu, r.emu, ins)
        /\ IF r.break
           THEN /\ emu' = d.emu
                /\ console' = console \o d.chars
                /\ call' = [call EXCEPT !.active = FALSE, !.executed = @ + 1]
           ELSE /\ emu' = r.emu
                /\ console' = console
                /\ call' = [call EXCEPT !.i = @ + 1, !.executed = @ + 1]
  /\ last' = [op |-> "execute", ins |-> ins, arg |-> 0]
  /\ UNCHANGED <<cpm, bridge, disk_io, queued, loaded>>

\* the loop condition is false: poll the output ring and return
Drain ==
  /\ call.active
  /\ ~runBatch_continues(emu, call)
  /\ LET d == runBatch_drain(emu)
     IN /\ emu' = d.emu
        /\ console' = console \o d.chars
  /\ call' = [call EXCEPT !.active = FALSE]
  /\ last' = [op |-> "return", ins |-> NoIns, arg |-> 0]
  /\ UNCHANGED <<cpm, bridge, disk_io, pushed, queued, observed, loaded, writes>>

\* the instruction at PC: the unretired OUT (0xEF), or any of `program`
Step(program) ==
  IF emu.cpu.unretired
  THEN Execute([op |-> "OUT", port |-> \hEF])
  ELSE \E ins \in program : Execute(ins)

-----------------------------------------------------------------------------
(* Spec: console traffic and batch control.  Programs are drawn from the   *)
(* instructions below; memory is not written.                              *)

InputChars == {LF, \h41}

ConsoleProgram ==
  {[op |-> "NOP"], [op |-> "HALT"], [op |-> "UNIMPL"]}
  \cup {[op |-> "LD_BC", v |-> f * 256] : f \in {HBF_CIOIN, HBF_CIOOUT, HBF_CIOIST, HBF_SYSRESET}}
  \cup {[op |-> "IN", port |-> p] : p \in {\h68, \h6D}}
  \cup {[op |-> "OUT", port |-> p] : p \in {\h68, \hEF}}

Init == InitWith({}, {})

Next ==
  \/ Reset
  \/ Start
  \/ Stop
  \/ \E ch \in InputChars : QueueInput(ch)
  \/ ClearWaitingForInput
  \/ \E n \in {k \in 0..MaxBatch : emu.instruction_count + k <= MaxInstr} : RunBatch(n)
  \/ Step(ConsoleProgram)
  \/ Drain

Spec == Init /\ [][Next]_vars

-----------------------------------------------------------------------------
(* SpecMem: banked memory.  The model tracks, of the 64 KiB view, the      *)
(* addresses 0x0000 (page zero), 0x0112 (CB_APITYPE, ROM only) and 0x4000  *)
(* in ROM banks 0 and 1 and RAM banks 0 and 1, and 0x8000 (common area).   *)

MemRomOffsets == {\h0000, \h0112, \h4000, BANK_SIZE + \h0000}
MemRamOffsets ==
  {b * BANK_SIZE + a : b \in {0, 1}, a \in {\h0000, \h4000}}
  \cup {COMMON_BANK * BANK_SIZE + \h0000}

\* a full 512 KiB image and a 512-byte image (an HCB only)
ImageFull ==
  [size |-> ROM_SIZE,
   data |-> [p \in MemRomOffsets |->
               CASE p = \h0000 -> \hC3 [] p = \h0112 -> \hFF
                 [] p = \h4000 -> \h11 [] OTHER -> \h22]]
ImageSmall ==
  [size |-> 512,
   data |-> [p \in {\h0000, \h0112} |-> IF p = \h0000 THEN \hF3 ELSE \h01]]
ImageEmpty == [size |-> 0, data |-> <<>>]

MemProgram ==
  {[op |-> "LD_A", v |-> v] : v \in {\h80, \h81}}
  \cup {[op |-> "LD_HL", v |-> v] : v \in {\h4000, \h8000}}
  \cup {[op |-> "ST_N", v |-> \hAA]}
  \cup {[op |-> "LD_BC", v |-> \h0001]}
  \cup {[op |-> "OUT", port |-> p] : p \in {\h78, \hEC}}

InitMem == InitWith(MemRomOffsets, MemRamOffsets)

NextMem ==
  \/ \E img \in {ImageFull, ImageSmall, ImageEmpty} : LoadROM(img)
  \/ Reset
  \/ Start
  \/ RunBatch(1)
  \/ Step(MemProgram)
  \/ Drain

SpecMem == InitMem /\ [][NextMem]_vars

-----------------------------------------------------------------------------
(* SpecSysReset: programs that write RAM and call SYSRESET.  The model     *)
(* tracks the addresses 0x0000 and 0x4000 of ROM bank 0 and RAM bank 0,    *)
(* and 0x8000 (common area).                                               *)

SysResetRomOffsets == {\h0000, \h4000}
SysResetRamOffsets == {\h0000, \h4000, COMMON_BANK * BANK_SIZE + \h0000}

SysResetProgram ==
  {[op |-> "NOP"]}
  \cup {[op |-> "LD_A", v |-> \h80]}
  \cup {[op |-> "LD_HL", v |-> v] : v \in {\h4000, \h8000}}
  \cup {[op |-> "ST_N", v |-> \hAA]}
  \cup {[op |-> "LD_BC", v |-> HBF_SYSRESET * 256]}
  \cup {[op |-> "LD_DE", v |-> v] : v \in {\h0001, \h0002}}
  \cup {[op |-> "OUT", port |-> p] : p \in {\h78, \hEF}}

InitSysReset == InitWith(SysResetRomOffsets, SysResetRamOffsets)

NextSysReset ==
  \/ LoadROM(ImageFull)
  \/ Start
  \/ \E n \in 1..MaxBatch : RunBatch(n)
  \/ Step(SysResetProgram)
  \/ Drain

SpecSysReset == InitSysReset /\ [][NextSysReset]_vars

-----------------------------------------------------------------------------
(* SpecCopy: bank copies into the common area.  The model tracks ROM       *)
(* offsets 0x0000, 0x7FF0, 0x7FFF (bank 0), 0x8000 and 0x800F (bank 1),    *)
(* and the common-area addresses 0x8000, 0x800F, 0x8010, 0x801F, 0xFFE4    *)
(* and 0xFFE7.  The image is zero at every other offset.                   *)

CopyRomOffsets == {\h0000, \h7FF0, \h7FFF, \h8000, \h800F}
CopyCommonAddrs == {\h8000, \h800F, \h8010, \h801F, \hFFE4, \hFFE7}
CopyRamOffsets == {common_offset(a) : a \in CopyCommonAddrs}

ImageCopy ==
  [size |-> ROM_SIZE,
   data |-> [p \in CopyRomOffsets |->
               CASE p = \h0000 -> \hC3 [] p = \h7FF0 -> \h51 [] p = \h7FFF -> \h52
                 [] p = \h8000 -> \h61 [] OTHER -> \h62]]

CopyProgram ==
  {[op |-> "LD_A", v |-> v] : v \in {\h80, \h8F}}
  \cup {[op |-> "LD_HL", v |-> v] : v \in {\h7FF0, \hFFE7}}
  \cup {[op |-> "ST_N", v |-> \h8F]}
  \cup {[op |-> "LD_DE", v |-> \h8000]}
  \cup {[op |-> "LD_BC", v |-> \h0020]}
  \cup {[op |-> "OUT", port |-> p] : p \in {\h78, \hEC}}

InitCopy == InitWith(CopyRomOffsets, CopyRamOffsets)

NextCopy ==
  \/ LoadROM(ImageCopy)
  \/ Start
  \* batches of one or two instructions
  \/ \E n \in 1..2 : RunBatch(n)
  \/ Step(CopyProgram)
  \/ Drain

SpecCopy == InitCopy /\ [][NextCopy]_vars

-----------------------------------------------------------------------------
(* SpecLoad: loadROM with a full image, an empty one and one of 512 KiB    *)
(* plus one byte, between runs of a program that writes RAM bank 0.  The   *)
(* tracked offsets are those of SpecMem.                                   *)

ImageOversized ==
  [size |-> ROM_SIZE + 1,
   data |-> [p \in MemRomOffsets \cup {ROM_SIZE} |->
               CASE p = \h0000 -> \h31 [] p = \h0112 -> \hFF
                 [] p = \h4000 -> \h33 [] p = ROM_SIZE -> \h99 [] OTHER -> \h34]]

\* a null pointer passed with a size of 5
ImageNull == [size |-> 5, data |-> nullptr]

LoadImages == {ImageFull, ImageEmpty, ImageOversized, ImageNull}

LoadProgram ==
  {[op |-> "LD_A", v |-> \h80],
   [op |-> "OUT", port |-> \h78],
   [op |-> "LD_HL", v |-> \h4000],
   [op |-> "ST_N", v |-> \hAA]}

NextLoad ==
  \/ \E img \in LoadImages : LoadROM(img)
  \/ \E file \in {NoFile, ImageFull} : LoadROMFromFile(file)
  \/ Start
  \/ \E n \in 1..MaxBatch : RunBatch(n)
  \/ Step(LoadProgram)
  \/ Drain

SpecLoad == InitMem /\ [][NextLoad]_vars

-----------------------------------------------------------------------------
(* Claims checked under Spec *)

OUT_EF == [op |-> "OUT", port |-> \hEF]

\* C1: one runBatch(n) call executes at most n instructions; an instruction
\* executes only while the dispatch state is Idle (none after NeedsInput or
\* Halted was entered); a call made while the emulator is not running or
\* the state is NeedsInput returns at once with zero instructions executed.
C1_BatchBound ==
  [][/\ call'.executed <= call'.count
     /\ (last'.op = "execute") =>
          /\ call.active /\ call.executed < call.count
          /\ emu.hbios.state = HBIOS_IDLE
          /\ call'.executed = call.executed + 1
     /\ (last'.op # "execute" /\ last'.op # "runBatch") =>
          call'.executed = call.executed
     /\ (last'.op = "runBatch"
         /\ (~emu.running \/ emu.hbios.state = HBIOS_NEEDS_INPUT)) =>
          (~call'.active /\ call'.executed = 0)
    ]_vars

\* a batch of two that stopped after its first instruction on NeedsInput
C1_Witness ==
  /\ ~call.active /\ call.count = 2 /\ call.executed = 1
  /\ emu.hbios.state = HBIOS_NEEDS_INPUT

\* C2: every byte pushed to the output ring is delivered to the console
\* exactly once and in push order, and when no runBatch call is in progress
\* (the call has returned) nothing is left in the ring.
C2_OutputDelivered ==
  /\ pushed = console \o emu.hbios.output
  /\ ~call.active => (emu.hbios.output = <<>> /\ console = pushed)

\* a batch that pushed a byte and then ended early on NeedsInput
C2_Witness ==
  /\ ~call.active /\ last.op = "execute"
  /\ emu.hbios.state = HBIOS_NEEDS_INPUT
  /\ Len(console) >= 1 /\ call.executed >= 2

\* the byte the CPU is to see for an argument of queueInput
as_typed(ch) == IF ch = LF THEN CR ELSE ch % 256

\* C3: the bytes the CPU has received, followed by the bytes still in the
\* input ring, are exactly the queued characters in queueing order: input
\* is observed in FIFO order and each character at most once.
C3_InputFifo ==
  observed \o emu.hbios.input = [k \in 1..Len(queued) |-> as_typed(queued[k])]

\* two different characters were queued and both received
C3_Witness ==
  /\ Len(observed) = 2 /\ observed[1] # observed[2]
  /\ Len(queued) = 2

\* C4: after a suspension on NeedsInput, queueInput clears NeedsInput (and
\* the waiting flag); the next runBatch(n), n >= 1, of the still running
\* emulator enters its loop, its first instruction is the suspended CIOIN
\* dispatch, and that dispatch returns the first character queued since the
\* suspension; a call that entered its loop returns with at least one
\* instruction executed.
C4_Resume ==
  [][/\ (last'.op = "queueInput") =>
          (emu'.hbios.state # HBIOS_NEEDS_INPUT /\ ~emu'.waiting_for_input
           /\ emu'.hbios.input # <<>>)
     /\ (last'.op = "runBatch" /\ last'.arg >= 1 /\ emu.running
         /\ emu.cpu.unretired /\ emu.hbios.input # <<>>) =>
          (call'.active /\ runBatch_continues(emu', call'))
     /\ (last'.op = "execute" /\ emu.cpu.unretired) =>
          /\ last'.ins = OUT_EF /\ reg_B(emu) = HBF_CIOIN
          /\ Len(queued) > Len(observed)
          /\ reg_E(emu') = as_typed(queued[Len(observed) + 1])
          /\ observed' = Append(observed, reg_E(emu'))
          /\ ~emu'.cpu.unretired
     /\ (call.active /\ ~call'.active /\ call.count >= 1) => call'.executed >= 1
    ]_vars

\* a resumed call whose first instruction received the queued character
C4_Witness ==
  /\ call.resumed /\ call.executed >= 1 /\ last.op = "execute"
  /\ last.ins = OUT_EF /\ observed = <<\h41>> /\ reg_E(emu) = \h41

\* C5: the dispatch state becomes NeedsInput only by a CIOIN dispatch
\* (OUT (0xEF) with B = 0) made with blocking disallowed and the input ring
\* empty; and it is not NeedsInput after any queueInput.
C5_NeedsInputOnlyFromCIOIN ==
  [][/\ (emu'.hbios.state = HBIOS_NEEDS_INPUT /\ emu.hbios.state # HBIOS_NEEDS_INPUT) =>
          /\ last'.op = "execute" /\ last'.ins = OUT_EF
          /\ reg_B(emu) = HBF_CIOIN
          /\ emu.hbios.input = <<>>
          /\ ~emu.hbios.blocking_allowed
     /\ (last'.op = "queueInput") => emu'.hbios.state # HBIOS_NEEDS_INPUT
    ]_vars

\* IN from port 0x68 on an empty ring was executed and the state is Idle
C5_Witness ==
  /\ last.op = "execute" /\ last.ins = [op |-> "IN", port |-> \h68]
  /\ observed = <<>> /\ emu.hbios.input = <<>>
  /\ emu.hbios.state = HBIOS_IDLE

\* C6: HALT or an unimplemented opcode clears running, the loop condition
\* of the call in progress is false from then on, no instruction executes
\* while running is false, only start() sets running, and a runBatch call
\* made while running is false returns with zero instructions executed.
C6_HaltStops ==
  [][/\ (last'.op = "execute" /\ last'.ins.op \in {"HALT", "UNIMPL"}) =>
          (~emu'.running /\ (call'.active => ~runBatch_continues(emu', call')))
     /\ (last'.op = "execute") => emu.running
     /\ (~emu.running /\ emu'.running) => last'.op = "start"
     /\ (last'.op = "runBatch" /\ ~emu.running) =>
          (~call'.active /\ call'.executed = 0)
    ]_vars

\* a runBatch call made after a HALT returned without executing anything
C6_Witness ==
  /\ last.op = "runBatch" /\ last.arg >= 1 /\ ~call.active /\ call.executed = 0
  /\ ~emu.running /\ emu.status = "HLT"

-----------------------------------------------------------------------------
(* Claims checked under SpecMem *)

\* C7: reset is idempotent: from every reachable state, reset() applied
\* twice gives the same emulator (flags, instruction count, registers, bank
\* register, initialized-banks set, rings, dispatch state, memory) as
\* reset() applied once.
C7_ResetIdempotent == reset(reset(emu)) = reset(emu)

\* reset() has acted on an emulator that had run a program: a ROM is
\* loaded, RAM holds a byte the program stored, and a further reset()
\* changes nothing
C7_Witness ==
  /\ last.op = "reset" /\ loaded = ImageFull
  /\ \E p \in DOMAIN emu.memory.ram : emu.memory.ram[p] = \hAA
  /\ ~emu.running /\ emu.initialized_ram_banks = {}
  /\ reset(emu) = emu

\* the byte ROM offset p holds
rom_at(m, p) == read_bank(m, p \div BANK_SIZE, p % BANK_SIZE)

\* C9 as stated: after loadROM(R), whatever the CPU stores, writes to ports
\* or copies between banks, every ROM offset that R covers reads R's byte.
C9_RomEqualsImage ==
  loaded # NoImage =>
    \A p \in DOMAIN emu.memory.rom :
      p < loaded.size => rom_at(emu.memory, p) = loaded.data[p]

\* C9 (amended): after loadROM(R), whatever the CPU stores, writes to ports
\* or copies between banks, every ROM offset that R covers reads R's byte,
\* except offset 0x0112 of bank 0 (CB_APITYPE), which reads 0x00.
C9_RomImmutable ==
  loaded # NoImage =>
    \A p \in DOMAIN emu.memory.rom :
      IF p = \h0112 THEN rom_at(emu.memory, p) = \h00
      ELSE p < loaded.size => rom_at(emu.memory, p) = loaded.data[p]

\* a store to 0x4000 was executed with ROM bank 0 selected
C9_Witness ==
  /\ loaded = ImageFull
  /\ last.op = "execute" /\ last.ins.op = "ST_N"
  /\ emu.memory.bank = \h00 /\ emu.cpu.HL = \h4000
  /\ rom_at(emu.memory, \h4000) = \h11

\* what fetch(a) returns once bank b has been selected through port 0x78
fetch_selected(e, b, a) == fetch_mem(port_out(e, \h78, b, e.cpu.PC).memory, a)

\* C10: a store to an address below 0x8000 made while RAM bank b1 is
\* selected leaves unchanged what fetch(a) returns under every other RAM
\* bank b2, for every a below 0x8000 the model tracks, also when the
\* selection of b2 is the first one (the one that initializes the bank).
C10_BankIsolation ==
  [][(/\ last'.op = "execute" /\ last'.ins.op = "ST_N"
      /\ emu.cpu.HL < BANK_SIZE /\ is_ram_bank(emu.memory.bank)) =>
       \A b2 \in (0..15) \ {bank_index(emu.memory.bank)} :
         \A a \in {p % BANK_SIZE : p \in DOMAIN emu.memory.ram} :
           fetch_selected(emu', \h80 + b2, a) = fetch_selected(emu, \h80 + b2, a)
    ]_vars

\* a store to 0x0000 under bank 0x81 while bank 0x80 was never selected:
\* bank 0x81 reads the stored byte, bank 0x80 will read the ROM's page zero
C10_Witness ==
  /\ last.op = "execute" /\ last.ins.op = "ST_N"
  /\ emu.memory.bank = \h81 /\ emu.cpu.HL = \h0000
  /\ loaded = ImageFull /\ 0 \notin emu.initialized_ram_banks
  /\ fetch_mem(emu.memory, \h0000) = \hAA
  /\ fetch_selected(emu, \h80, \h0000) = \hC3

-----------------------------------------------------------------------------
(* Claims checked under SpecSysReset *)

\* C8 as stated: SYSRESET (OUT (0xEF) with B = 0xF0) called with E = 0x01
\* leaves PC = 0 and ROM bank 0 selected, changes no RAM byte, and reports
\* a status text with "Warm".
C8_WarmReset ==
  [][(/\ last'.op = "execute" /\ last'.ins = OUT_EF
      /\ reg_B(emu) = HBF_SYSRESET /\ reg_E(emu) = \h01) =>
       /\ emu'.cpu.PC = 0
       /\ emu'.memory.bank = \h00
       /\ emu'.memory.ram = emu.memory.ram
       /\ emu'.status = "Warm"
    ]_vars

\* C8 (amended): SYSRESET called with E = 0x01 leaves PC = 0 and ROM bank 0
\* selected and changes no RAM byte; the text with "Warm" is written to the
\* log (emu_log), and no status text (emu_status, emu_error) is reported:
\* the last status text stays what it was.
C8_WarmResetLogged ==
  [][(/\ last'.op = "execute" /\ last'.ins = OUT_EF
      /\ reg_B(emu) = HBF_SYSRESET /\ reg_E(emu) = \h01) =>
       /\ emu'.cpu.PC = 0
       /\ emu'.memory.bank = \h00
       /\ emu'.memory.ram = emu.memory.ram
       /\ emu'.log = "Warm"
       /\ emu'.status = emu.status
    ]_vars

\* SYSRESET with E = 1 was executed after 0xAA was stored to RAM bank 0 at
\* 0x4000: the byte is still there, the log holds the "Warm" text and no
\* status text has been reported
C8_Witness ==
  /\ last.op = "execute" /\ last.ins = OUT_EF
  /\ reg_B(emu) = HBF_SYSRESET /\ reg_E(emu) = \h01
  /\ emu.log = "Warm" /\ emu.status = ""
  /\ emu.cpu.PC = 0 /\ emu.memory.bank = \h00
  /\ read_bank(emu.memory, \h80, \h4000) = \hAA

-----------------------------------------------------------------------------
(* Claims checked under SpecCopy *)

OUT_EC == [op |-> "OUT", port |-> \hEC]

\* the bank bytes a program can have in the bank register or in 0xFFE7
CopyBanks == {\h00, \h80, \h8F}

\* at every tracked address of the common area, fetch under the selected
\* bank, read_bank under any bank and write_bank under any bank address
\* the same byte as under bank 0x8F
common_aliased(m) ==
  \A a \in CopyCommonAddrs :
    /\ fetch_mem(m, a) = read_bank(m, \h8F, a)
    /\ \A b \in CopyBanks :
         /\ read_bank(m, b, a) = read_bank(m, \h8F, a)
         /\ write_bank(m, b, a, \h55) = write_bank(m, \h8F, a, \h55)

\* C11: whatever bank is selected and whatever the memory has become,
\* fetch(a) for a >= 0x8000 equals read_bank(0x8F, a), and read_bank(b, a)
\* and write_bank(b, a, v) address the common area for every b; a CPU store to a >= 0x8000 is read back
\* under every bank, and a bank copy whose destination lies at or above
\* 0x8000 has the same effect whatever the destination bank byte is.
C11_CommonAliasing ==
  [][/\ (emu'.memory # emu.memory) => common_aliased(emu'.memory)
     /\ (last'.op = "execute" /\ last'.ins.op = "ST_N" /\ emu.cpu.HL >= BANK_SIZE) =>
          \A b \in CopyBanks : read_bank(emu'.memory, b, emu.cpu.HL) = last'.ins.v
     /\ (last'.op = "execute" /\ last'.ins = OUT_EC
         /\ emu.cpu.DE >= BANK_SIZE /\ emu.cpu.DE + emu.cpu.BC <= 65536) =>
          \A b \in CopyBanks :
            emu'.memory = bnkcpy(emu.memory, fetch_mem(emu.memory, \hFFE4), b,
                                 emu.cpu.HL, emu.cpu.DE, emu.cpu.BC)
    ]_vars

\* a bank copy to 0x8000 was executed with destination bank byte 0x00 and
\* RAM bank 0x80 selected, and the copied byte is read under every bank
C11_Witness ==
  /\ last.op = "execute" /\ last.ins = OUT_EC
  /\ emu.cpu.HL = \h7FF0 /\ emu.cpu.DE = \h8000 /\ emu.cpu.BC = \h0020
  /\ fetch_mem(emu.memory, \hFFE7) = \h00 /\ emu.memory.bank = \h80
  /\ loaded = ImageCopy
  /\ \A b \in CopyBanks : read_bank(emu.memory, b, \h8000) = \h51

\* the copy of the scenario: HL = 0x7FF0, DE = 0x8000, BC = 0x20,
\* [0xFFE4] = 0x00, [0xFFE7] = 0x8F
cross_boundary_copy(e) ==
  /\ e.cpu.HL = \h7FF0 /\ e.cpu.DE = \h8000 /\ e.cpu.BC = \h0020
  /\ fetch_mem(e.memory, \hFFE4) = \h00 /\ fetch_mem(e.memory, \hFFE7) = \h8F

\* the copy indices whose destination the model tracks
CopyIndices == {0, 15, 16, 31}

\* C13 as stated: after the cross-boundary copy, fetch(0x8000 + i) equals
\* the ROM byte at physical offset 0x7FF0 + i for every i in 0..31.
C13_CopyReadsRom ==
  [][(last'.op = "execute" /\ last'.ins = OUT_EC /\ cross_boundary_copy(emu)) =>
       \A i \in CopyIndices :
         fetch_mem(emu'.memory, \h8000 + i) = cell(emu.memory.rom, \h7FF0 + i)
    ]_vars

\* C13 (amended): after the cross-boundary copy, fetch(0x8000 + i) equals
\* the ROM byte at physical offset 0x7FF0 + i for i in 0..15; for i in
\* 16..31 the source address 0x8000 + (i - 16) is in the common area, which
\* the copy has written by then, so fetch(0x8000 + i) equals the ROM byte
\* at physical offset 0x7FF0 + (i - 16).
C13_CopyCrossBoundary ==
  [][(last'.op = "execute" /\ last'.ins = OUT_EC /\ cross_boundary_copy(emu)) =>
       \A i \in CopyIndices :
         fetch_mem(emu'.memory, \h8000 + i) = cell(emu.memory.rom, \h7FF0 + (i % 16))
    ]_vars

\* the cross-boundary copy was executed on the loaded image
C13_Witness ==
  /\ last.op = "execute" /\ last.ins = OUT_EC /\ cross_boundary_copy(emu)
  /\ loaded = ImageCopy
  /\ fetch_mem(emu.memory, \h8000) = \h51 /\ fetch_mem(emu.memory, \h800F) = \h52
  /\ fetch_mem(emu.memory, \h8010) = \h51 /\ fetch_mem(emu.memory, \h801F) = \h52

-----------------------------------------------------------------------------
(* Claims checked under SpecLoad *)

\* the emulator apart from the text of the last status report
without_status(e) == [e EXCEPT !.status = ""]

\* the image a loadROM call of the given size was made with
image_of(size) == CHOOSE img \in LoadImages : img.size = size

\* C12 as stated: loadROM called with empty data or with more than 512 KiB
\* returns false and leaves ROM, RAM and all other emulator state as they
\* were.
C12_RejectsInvalid ==
  [][(last'.op = "loadROM" /\ (last'.arg = 0 \/ last'.arg > ROM_SIZE)) =>
       /\ ~loadROM_ok(image_of(last'.arg).data, last'.arg)
       /\ without_status(emu') = without_status(emu)
    ]_vars

\* C12 (amended): loadROM called with null or empty data returns false and leaves
\* ROM, RAM and all other emulator state as they were; called with more
\* than 512 KiB it returns true and loads the first 512 KiB (with offset
\* 0x0112 set to 0x00), clearing RAM and copying the first 512 bytes of the
\* ROM to RAM bank 0.
C12_RejectsEmpty ==
  [][/\ (last'.op = "loadROM" /\ (last'.arg = 0 \/ is_null(image_of(last'.arg).data))) =>
          /\ ~loadROM_ok(image_of(last'.arg).data, last'.arg)
          /\ without_status(emu') = without_status(emu)
          /\ loaded' = loaded
     /\ (last'.op = "loadROM" /\ last'.arg > ROM_SIZE) =>
          /\ loadROM_ok(image_of(last'.arg).data, last'.arg)
          /\ loaded' = image_of(last'.arg)
          /\ \A p \in DOMAIN emu'.memory.rom :
               emu'.memory.rom[p] = IF p = \h0112 THEN \h00 ELSE loaded'.data[p]
          /\ \A p \in DOMAIN emu'.memory.ram :
               emu'.memory.ram[p] = IF p < 512 THEN cell(emu'.memory.rom, p) ELSE 0
    ]_vars

\* loadROM with empty data was refused on an emulator that holds a loaded
\* ROM and a byte stored by the program
C12_Witness ==
  /\ last.op = "loadROM" /\ last.arg = 0
  /\ emu.status = "ROM data is null or empty"
  /\ loaded = ImageFull /\ rom_at(emu.memory, \h4000) = \h11
  /\ read_bank(emu.memory, \h80, \h4000) = \hAA

-----------------------------------------------------------------------------
(* Disk I/O.  The host attaches images between batches; the DIO functions  *)
(* of the firmware reach the Disk Store as seek, read_sector and           *)
(* write_sector on a unit.  The caller's sector buffer and the status of   *)
(* the last call are in disk_io, together with the images as attached and  *)
(* the progress of a seek / write.. / seek / read.. sequence on one unit.  *)

\* a two-sector image, and one of a whole sector followed by 188 bytes
DiskTwoSectors == [size |-> 2 * SECTOR_SIZE, data |-> <<\h11, \h12>>]
DiskPartial == [size |-> SECTOR_SIZE + 188, data |-> <<\h21>>]
\* the images the host attaches, by unit; unit 16 is outside the table
DiskLoads == {<<0, DiskTwoSectors>>, <<1, DiskPartial>>,
              <<HB_MAX_DISKS, DiskPartial>>}
DiskFiles == {NoFile, DiskPartial}
DiskCallUnits == DiskUnits \cup {HB_MAX_DISKS}
SectorBuffers == {\hA1, \hA2}

\* the sequence in progress after a call on unit u
rt_drop(rt, u) == IF rt.phase # "none" /\ rt.unit = u THEN NoRoundTrip ELSE rt

rt_seek(rt, u, lba, ok) ==
  IF ~ok THEN rt_drop(rt, u)
  ELSE IF rt.phase = "writing" /\ rt.unit = u /\ rt.s0 = lba /\ rt.written # <<>>
  THEN [rt EXCEPT !.phase = "reading"]
  ELSE IF rt.phase = "none" \/ rt.unit = u
  THEN [phase |-> "writing", unit |-> u, s0 |-> lba, written |-> <<>>, read |-> <<>>]
  ELSE rt

rt_write(rt, u, buf, ok) ==
  IF rt.phase = "none" \/ rt.unit # u THEN rt
  ELSE IF ok /\ rt.phase = "writing" THEN [rt EXCEPT !.written = Append(@, buf)]
  ELSE NoRoundTrip

rt_read(rt, u, buf, ok) ==
  IF rt.phase = "none" \/ rt.unit # u THEN rt
  ELSE IF ok /\ rt.phase = "reading" /\ Len(rt.read) < Len(rt.written)
  THEN [rt EXCEPT !.read = Append(@, buf)]
  ELSE NoRoundTrip

LoadDisk(u, img) ==
  /\ ~call.active
  /\ LET r == loadDisk(emu, u, img.data, img.size)
     IN /\ emu' = r.emu
        /\ disk_io' = [disk_io EXCEPT
                         !.attached = IF r.ok THEN [@ EXCEPT ![u] = img] ELSE @,
                         !.rt = rt_drop(@, u)]
  /\ last' = [op |-> "loadDisk", ins |-> NoIns, arg |-> u]
  /\ UNCHANGED <<cpm, bridge, call, console, pushed, queued, observed, loaded, writes>>

LoadDiskFromFile(u, file) ==
  /\ ~call.active
  /\ LET r == loadDiskFromFile(emu, u, file)
     IN /\ emu' = r.emu
        /\ disk_io' = [disk_io EXCEPT
                         !.attached = IF r.ok THEN [@ EXCEPT ![u] = file] ELSE @,
                         !.rt = rt_drop(@, u)]
  /\ last' = [op |-> "loadDiskFromFile", ins |-> NoIns, arg |-> u]
  /\ UNCHANGED <<cpm, bridge, call, console, pushed, queued, observed, loaded, writes>>

SetDiskSliceCount(u, n) ==
  /\ ~call.active
  /\ emu' = setDiskSliceCount(emu, u, n)
  /\ last' = [op |-> "setDiskSliceCount", ins |-> NoIns, arg |-> u]
  /\ UNCHANGED <<cpm, bridge, disk_io, call, console, pushed, queued, observed, loaded, writes>>

CloseAllDisks ==
  /\ ~call.active
  /\ emu' = closeAllDisks(emu)
  /\ disk_io' = [disk_io EXCEPT !.attached = [u \in DiskUnits |-> NoData],
                                !.rt = NoRoundTrip]
  /\ last' = [op |-> "closeAllDisks", ins |-> NoIns, arg |-> 0]
  /\ UNCHANGED <<cpm, bridge, call, console, pushed, queued, observed, loaded, writes>>

Seek(u, lba) ==
  /\ LET r == disk_seek(emu.hbios, u, lba)
     IN /\ emu' = [emu EXCEPT !.hbios = r.hbios]
        /\ disk_io' = [disk_io EXCEPT !.status = r.status,
                                      !.rt = rt_seek(@, u, lba, r.status = DISK_OK)]
  /\ last' = [op |-> "seek", ins |-> NoIns, arg |-> u]
  /\ UNCHANGED <<cpm, bridge, call, console, pushed, queued, observed, loaded, writes>>

\* read_sector into the caller's buffer
ReadSector(u) ==
  /\ LET r == disk_read_sector(emu.hbios, u, disk_io.buf)
     IN /\ emu' = [emu EXCEPT !.hbios = r.hbios]
        /\ disk_io' = [disk_io EXCEPT !.status = r.status, !.buf = r.buf,
                                      !.rt = rt_read(@, u, r.buf, r.status = DISK_OK)]
  /\ last' = [op |-> "readSector", ins |-> NoIns, arg |-> u]
  /\ UNCHANGED <<cpm, bridge, call, console, pushed, queued, observed, loaded, writes>>

\* the caller fills its buffer with buf and calls write_sector
WriteSector(u, buf) ==
  /\ LET r == disk_write_sector(emu.hbios, u, buf)
     IN /\ emu' = [emu EXCEPT !.hbios = r.hbios]
        /\ disk_io' = [disk_io EXCEPT !.status = r.status, !.buf = buf,
                                      !.rt = rt_write(@, u, buf, r.status = DISK_OK)]
  /\ last' = [op |-> "writeSector", ins |-> NoIns, arg |-> u]
  /\ UNCHANGED <<cpm, bridge, call, console, pushed, queued, observed, loaded, writes>>

NextDisk ==
  \/ \E l \in DiskLoads : LoadDisk(l[1], l[2])
  \/ \E file \in DiskFiles : LoadDiskFromFile(1, file)
  \/ \E u \in {0, HB_MAX_DISKS} : SetDiskSliceCount(u, 4)
  \/ CloseAllDisks
  \/ \E u \in DiskCallUnits, lba \in 0..MaxLba : Seek(u, lba)
  \/ \E u \in DiskCallUnits : ReadSector(u)
  \/ \E u \in DiskCallUnits, buf \in SectorBuffers : WriteSector(u, buf)

SpecDisk == Init /\ [][NextDisk]_vars

\* C14: Disk round trip.  After seek(u,s0), k sector writes, seek(u,s0)
\* and sector reads on an attached unit, the sectors read so far are the
\* sectors written, in order; and the image returned by getDiskData holds
\* the written sectors at s0, s0+1, .. while its size is unchanged.
C14_DiskRoundTrip ==
  LET rt == disk_io.rt IN
  rt.phase # "none" =>
    /\ isDiskLoaded(emu, rt.unit)
    /\ Len(rt.read) <= Len(rt.written)
    /\ rt.read = SubSeq(rt.written, 1, Len(rt.read))
    /\ rt.written # <<>> =>
         (rt.s0 + Len(rt.written)) * SECTOR_SIZE <= getDiskSize(emu, rt.unit)
    /\ \A i \in 1..Len(rt.written) :
         /\ rt.s0 + i <= Len(getDiskData(emu, rt.unit))
         /\ getDiskData(emu, rt.unit)[rt.s0 + i] = rt.written[i]

\* two sectors written at 0 on unit 0 have been read back, or one on unit 1
C14_Witness ==
  /\ disk_io.rt.phase = "reading"
  /\ disk_io.rt.unit = 1
  /\ disk_io.rt.written = <<\hA2>>
  /\ disk_io.rt.read = disk_io.rt.written
  /\ getDiskData(emu, 0) = <<\hA1, \hA2>>
  /\ last.op = "readSector"

\* TRUE when a sector access on unit u in emulator e has to fail
sector_access_fails(e, u) ==
  \/ ~isDiskLoaded(e, u)
  \/ (getDisk(e.hbios, u).position + 1) * SECTOR_SIZE > getDiskSize(e, u)

\* C15: A sector read or write on a unit that is not present, or whose
\* 512-byte extent passes the end of the data, fails with an error status
\* and leaves the disk data, its length, the position and the caller's
\* buffer unchanged; the data never gets longer than the image attached.
C15_FailedAccess ==
  [][/\ (last'.op \in {"readSector", "writeSector"}
         /\ sector_access_fails(emu, last'.arg))
        => /\ disk_io'.status # DISK_OK
           /\ emu'.hbios.disks = emu.hbios.disks
           /\ last'.op = "readSector" => disk_io'.buf = disk_io.buf
           /\ \A u \in DiskUnits : /\ getDiskData(emu', u) = getDiskData(emu, u)
                                   /\ getDiskSize(emu', u) = getDiskSize(emu, u)
     /\ \A u \in DiskUnits : getDiskSize(emu', u) = disk_io'.attached[u].size
    ]_vars

\* a read at sector 1 of the image of 700 bytes has failed
C15_Witness ==
  /\ last.op = "readSector" /\ last.arg = 1
  /\ disk_io.status = DISK_SECTOR_OUT_OF_RANGE
  /\ getDiskSize(emu, 1) = SECTOR_SIZE + 188
  /\ getDisk(emu.hbios, 1).position = 1
  /\ getDisk(emu.hbios, 1).dirty

-----------------------------------------------------------------------------
(* Controlify.  The host sets the mode on the bridge and types through     *)
(* sendCharacter; the program reads the console data port.                 *)

SetControlify(mode) ==
  /\ ~call.active
  /\ bridge' = setControlify(bridge, mode)
  /\ last' = [op |-> "setControlify", ins |-> NoIns, arg |-> mode]
  /\ UNCHANGED <<cpm, emu, disk_io, call, console, pushed, queued, observed, loaded, writes>>

SendCharacter(ch) ==
  /\ ~call.active
  /\ Len(queued) < MaxQueued
  /\ LET r == sendCharacter(bridge, emu, ch)
     IN emu' = r.emu /\ bridge' = r.bridge
  /\ queued' = Append(queued, ch)
  /\ last' = [op |-> "sendCharacter", ins |-> NoIns, arg |-> ch]
  /\ UNCHANGED <<cpm, disk_io, call, console, pushed, observed, loaded, writes>>

ControlifyModes == {RWBControlifyOff, RWBControlifyOneChar, RWBControlifySticky}
\* 'A', 'a', 'C', 'J' and '1'
ControlifyChars == {\h41, \h61, \h43, \h4A, \h31}
ControlifyProgram == {[op |-> "IN", port |-> \h68]}

NextControlify ==
  \/ \E m \in ControlifyModes : SetControlify(m)
  \/ \E ch \in ControlifyChars : SendCharacter(ch)
  \/ Start
  \/ \E n \in 1..MaxBatch : RunBatch(n)
  \/ Step(ControlifyProgram)
  \/ Drain

SpecControlify == Init /\ [][NextControlify]_vars

is_letter(ch) == (ch >= \h41 /\ ch <= \h5A) \/ (ch >= \h61 /\ ch <= \h7A)

\* the mode after one character has been queued
mode_after(mode) ==
  IF mode = RWBControlifySticky THEN RWBControlifySticky ELSE RWBControlifyOff

\* C16 (as stated): Controlify law.  A letter queued in mode Sticky or OneShot is put
\* on the input ring as its Ctrl-equivalent (its low five bits) and a
\* character queued in mode Off unconverted; Sticky stays, OneShot becomes
\* Off; and the program receives the ring's characters in order.
C16_ControlifyLaw ==
  [][last'.op = "sendCharacter" =>
       LET ch == last'.arg
           mode == getControlify(bridge)
       IN /\ getControlify(bridge') = mode_after(mode)
          /\ (mode # RWBControlifyOff /\ is_letter(ch))
               => emu'.hbios.input = Append(emu.hbios.input, ch % 32)
          /\ mode = RWBControlifyOff
               => emu'.hbios.input = Append(emu.hbios.input, ch)
    ]_vars

\* in mode Sticky 'J' has been typed and the program has read 0x0D
C16_Witness ==
  /\ getControlify(bridge) = RWBControlifySticky
  /\ queued = <<\h43, \h4A>>
  /\ observed = <<\h03, CR>>
  /\ last.op = "execute"

\* C16 (amended): as C16, but the converted character then passes through
\* queueInput, so 'J' and 'j', whose Ctrl-equivalent is LF, arrive as CR.
C16_ControlifyThenCR ==
  [][last'.op = "sendCharacter" =>
       LET ch == last'.arg
           mode == getControlify(bridge)
           c == IF mode # RWBControlifyOff /\ is_letter(ch) THEN ch % 32 ELSE ch
       IN /\ getControlify(bridge') = mode_after(mode)
          /\ (is_letter(ch) \/ mode = RWBControlifyOff)
               => emu'.hbios.input = Append(emu.hbios.input, IF c = LF THEN CR ELSE c)
    ]_vars

-----------------------------------------------------------------------------
(* Boot string.  The host sets the boot string, starts, and types; the     *)
(* program reads the console data port.  The characters typed here are     *)
(* not line feeds, so `queued` is the boot feed followed by the typed      *)
(* characters exactly as they enter the ring.                              *)

SetBootString(str) ==
  /\ ~call.active
  /\ emu' = setBootString(emu, str)
  /\ last' = [op |-> "setBootString", ins |-> NoIns, arg |-> Len(str)]
  /\ UNCHANGED <<cpm, bridge, disk_io, call, console, pushed, queued, observed, loaded, writes>>

\* queueInput while the boot feed may still be in the ring
QueueInputLate(ch) ==
  /\ ~call.active
  /\ Len(queued) < MaxBootQueued
  /\ emu' = queueInput(emu, ch)
  /\ queued' = Append(queued, ch)
  /\ last' = [op |-> "queueInput", ins |-> NoIns, arg |-> ch]
  /\ UNCHANGED <<cpm, bridge, disk_io, call, console, pushed, observed, loaded, writes>>

\* "", "1" and a line feed followed by "1"
BootStrings == {<<>>, <<\h31>>, <<LF, \h31>>}
BootTyped == {\h41}
BootProgram == {[op |-> "IN", port |-> \h68]}

NextBoot ==
  \/ \E str \in BootStrings : SetBootString(str)
  \/ Start
  \/ \E ch \in BootTyped : QueueInputLate(ch)
  \/ \E n \in 1..MaxBatch : RunBatch(n)
  \/ Step(BootProgram)
  \/ Drain

SpecBoot == Init /\ [][NextBoot]_vars

\* C17: start() after setBootString(s) leaves in the input ring exactly the
\* bytes of s followed by CR when s is not empty, and nothing when it is;
\* from then on what the program has read followed by what the ring holds
\* is the boot feed followed by the characters queued after start(), so
\* the boot feed is consumed first.
C17_BootString ==
  [][/\ last'.op = "start" =>
          emu'.hbios.input = IF emu.boot_string # <<>>
                             THEN emu.boot_string \o <<CR>> ELSE <<>>
     /\ emu'.running => observed' \o emu'.hbios.input = queued'
    ]_vars

\* boot string LF "1": the program has read LF, "1", CR and then the "A"
\* typed after start()
C17_Witness ==
  /\ emu.boot_string = <<LF, \h31>>
  /\ queued = <<LF, \h31, CR, \h41>>
  /\ observed = queued
  /\ emu.hbios.input = <<>>

-----------------------------------------------------------------------------
(* Stopping.  stop() may arrive while a runBatch call is in progress: from *)
(* a host callback made inside an instruction, or from another thread.     *)
(* `running` is a plain bool that the loop reads again after every         *)
(* cpu.execute(), so a stop takes effect at an instruction boundary; which *)
(* boundary is not determined, and StopInBatch may be taken at any.        *)

StopInBatch ==
  /\ call.active
  /\ emu' = stop(emu)
  /\ last' = [op |-> "stop", ins |-> NoIns, arg |-> 1]
  /\ UNCHANGED <<cpm, bridge, disk_io, call, console, pushed, queued, observed, loaded, writes>>

StopProgram == {[op |-> "NOP"], [op |-> "HALT"], [op |-> "OUT", port |-> \h68]}

NextStop ==
  \/ Reset
  \/ Start
  \/ Stop
  \/ StopInBatch
  \/ \E n \in 0..MaxBatch : RunBatch(n)
  \/ Step(StopProgram)
  \/ Drain

SpecStop == Init /\ [][NextStop]_vars

\* C18: stop() leaves running false.  While running is false no
\* instruction is executed: a runBatch call in progress only returns,
\* having executed nothing more, and a later runBatch returns at once with
\* nothing changed; only start() makes running true again.
C18_Stop ==
  [][/\ last'.op = "stop" => ~isRunning(emu')
     /\ ~isRunning(emu) =>
          /\ last'.op # "execute"
          /\ emu'.instruction_count = emu.instruction_count
             \/ last'.op \in {"start", "reset"}
          /\ call'.executed = call.executed \/ last'.op = "runBatch"
          /\ call.active => (~call'.active /\ last'.op = "return") \/ last'.op = "stop"
          /\ last'.op = "runBatch" =>
               ~call'.active /\ call'.executed = 0 /\ emu' = emu
          /\ isRunning(emu') => last'.op = "start"
    ]_vars

\* a batch of two stopped after its first instruction has returned
C18_Witness ==
  /\ last.op = "return"
  /\ call.count = 2 /\ call.executed = 1 /\ call.i = 1
  /\ ~isRunning(emu)
  /\ emu.hbios.state = HBIOS_IDLE
  /\ emu.instruction_count = 1

-----------------------------------------------------------------------------
(* Firmware cells.  The program stores into cells of the common area that  *)
(* the firmware owns, selects RAM banks (bank 0x8F among them, whose first *)
(* selection copies ROM page zero to 0x8000..0x81FF) and calls SYSRESET;   *)
(* the host loads, resets, starts and types.                               *)

\* a bank-copy cell and a proxy trampoline
FirmwareCells == {\hFFE4, \hFFF0}
FirmwareRomOffsets == {\h0000}
FirmwareRamOffsets == {common_offset(a) : a \in FirmwareCells \cup {\h8000}}

ImageFirmware ==
  [size |-> ROM_SIZE, data |-> [p \in FirmwareRomOffsets |-> \hC3]]

FirmwareProgram ==
  {[op |-> "LD_A", v |-> \h8F]}
  \cup {[op |-> "LD_HL", v |-> v] : v \in FirmwareCells}
  \cup {[op |-> "ST_N", v |-> \hC9]}
  \cup {[op |-> "LD_BC", v |-> HBF_SYSRESET * 256]}
  \cup {[op |-> "OUT", port |-> p] : p \in {\h78, \hEF}}

InitFirmware == InitWith(FirmwareRomOffsets, FirmwareRamOffsets)

NextFirmware ==
  \/ LoadROM(ImageFirmware)
  \/ Reset
  \/ Start
  \/ QueueInput(\h41)
  \/ RunBatch(1)
  \/ Step(FirmwareProgram)
  \/ Drain

SpecFirmware == InitFirmware /\ [][NextFirmware]_vars

\* TRUE when the step stores into cell c: LD (HL),n with HL = c
stores_to(c) ==
  last'.op = "execute" /\ last'.ins.op = "ST_N" /\ emu.cpu.HL = c

\* C19 (as stated): a firmware cell of the common area changes only by a
\* CPU store (or bank copy) that targets it.
C19_OnlyStoresChangeCells ==
  [][\A c \in FirmwareCells :
       fetch_mem(emu'.memory, c) # fetch_mem(emu.memory, c) => stores_to(c)]_vars

\* C19 (amended): bank selection, first-select bank initialization,
\* reset(), start(), SYSRESET, queueInput and runBatch leave the firmware
\* cells unchanged; they change only by a CPU store that targets them and
\* by loadROM, which clears RAM.
C19_FirmwareCellsKept ==
  [][\A c \in FirmwareCells :
       fetch_mem(emu'.memory, c) # fetch_mem(emu.memory, c)
         => stores_to(c) \/ last'.op = "loadROM"]_vars

\* a cell written, bank 0x8F selected for the first time (0x8000 holds
\* the first byte of ROM), then reset()
C19_Witness ==
  /\ fetch_mem(emu.memory, \hFFF0) = \hC9
  /\ fetch_mem(emu.memory, \h8000) = \hC3
  /\ last.op = "reset"

-----------------------------------------------------------------------------
(* Port input.  The program reads the UART data and status ports, the bank *)
(* register, the sense switches and two ports nothing is attached to,      *)
(* after selecting a bank; the host types NUL and "A".                     *)

PortsRead == {\h68, \h6D, \h78, \h7C, \hFE, \h10, \hEF}
PortChars == {\h00, \h41}

PortProgram ==
  {[op |-> "IN", port |-> p] : p \in PortsRead}
  \cup {[op |-> "LD_A", v |-> \h81], [op |-> "OUT", port |-> \h78]}
  \cup {[op |-> "LD_IX", v |-> \h0406]}
  \cup {[op |-> "OUT", port |-> p] : p \in {\hED, \hEE}}

NextPorts ==
  \/ Start
  \/ \E ch \in PortChars : QueueInput(ch)
  \/ \E n \in 1..MaxBatch : RunBatch(n)
  \/ Step(PortProgram)
  \/ Drain

SpecPorts == Init /\ [][NextPorts]_vars

\* everything of the emulator that an IN instruction may not touch, given
\* that it may pop the input ring: the rest of HBIOS, memory, the flags
except_input(e) ==
  [hbios |-> [e.hbios EXCEPT !.input = <<>>], memory |-> e.memory,
   running |-> e.running, waiting_for_input |-> e.waiting_for_input,
   status |-> e.status, log |-> e.log, boot_string |-> e.boot_string]

\* C20: Port input contract.  IN 0x6D returns 0x60 with bit 0 set exactly
\* when the input ring is not empty and consumes nothing; IN 0x68 pops and
\* returns the oldest byte of the ring, or returns 0 and changes nothing
\* when the ring is empty; IN 0xFE returns 0; IN from a port other than
\* 0x68, 0x6D, 0x78, 0x7C, 0xFE returns 0xFF.
C20_PortInput ==
  [][(last'.op = "execute" /\ last'.ins.op = "IN") =>
       LET port == last'.ins.port
           ring == emu.hbios.input
           a == reg_A(emu')
       IN /\ except_input(emu') = except_input(emu)
          /\ port = \h6D =>
               /\ a = \h60 + (IF ring # <<>> THEN 1 ELSE 0)
               /\ emu'.hbios.input = ring
          /\ (port = \h68 /\ ring # <<>>) =>
               a = Head(ring) /\ emu'.hbios.input = Tail(ring)
          /\ (port = \h68 /\ ring = <<>>) =>
               a = 0 /\ emu'.hbios.input = <<>>
          /\ port = \hFE => a = 0 /\ emu'.hbios.input = ring
          /\ port \notin {\h68, \h6D, \h78, \h7C, \hFE} =>
               a = \hFF /\ emu'.hbios.input = ring
    ]_vars

\* "A" then NUL typed; the program has read "A" from 0x68 and then the
\* status 0x61 from 0x6D, the NUL still in the ring
C20_Witness ==
  /\ last.op = "execute" /\ last.ins = [op |-> "IN", port |-> \h6D]
  /\ reg_A(emu) = \h61
  /\ observed = <<\h41>>
  /\ emu.hbios.input = <<\h00>>

-----------------------------------------------------------------------------
(* The simple CP/M layer.  Its memory starts filled with one byte value;   *)
(* the program stores bytes, the host initializes the BIOS tables and asks *)
(* whether an address is a BIOS trap.                                      *)

CpmFills == {\h00, \hE5, \hFF}
CpmPokes == {\hF600, \hF7D7, \hF7D8}
CpmPCs == {\hF5FF, \hF600, \hF632, \hF633, \hFFFF}

InitBios ==
  /\ \E v \in CpmFills : cpm = CpmWith(v)
  /\ emu = HBIOSEmulator({}, {})
  /\ call = NoCall
  /\ console = <<>> /\ pushed = <<>> /\ queued = <<>> /\ observed = <<>>
  /\ last = [op |-> "new", ins |-> NoIns, arg |-> 0]
  /\ loaded = NoImage
  /\ writes = 0
  /\ bridge = RomWBWEmulator
  /\ disk_io = NoDiskIo

CpmInitBios ==
  /\ cpm' = [cpm EXCEPT !.memory = cpm_init_bios(@)]
  /\ last' = [op |-> "cpm_init_bios", ins |-> NoIns, arg |-> 0]
  /\ UNCHANGED <<emu, call, console, pushed, queued, observed, loaded, writes,
                 bridge, disk_io>>

\* a store of the running program into the BIOS area
CpmPoke(a, v) ==
  /\ cpm' = [cpm EXCEPT !.memory[a] = v]
  /\ last' = [op |-> "poke", ins |-> NoIns, arg |-> a]
  /\ UNCHANGED <<emu, call, console, pushed, queued, observed, loaded, writes,
                 bridge, disk_io>>

CpmIsBiosTrap(pc) ==
  /\ cpm' = [cpm EXCEPT !.trap = cpm_is_bios_trap(pc)]
  /\ last' = [op |-> "cpm_is_bios_trap", ins |-> NoIns, arg |-> pc]
  /\ UNCHANGED <<emu, call, console, pushed, queued, observed, loaded, writes,
                 bridge, disk_io>>

NextBios ==
  \/ CpmInitBios
  \/ \E a \in CpmPokes : CpmPoke(a, \hAA)
  \/ \E pc \in CpmPCs : CpmIsBiosTrap(pc)

SpecBios == InitBios /\ [][NextBios]_vars

\* the 16-bit little-endian word of mem at a
word_at(mem, a) == mem[a] + 256 * mem[a + 1]

\* the regions of the layout, as <<first address, length>>
BiosRegions ==
  <<<<BIOS_BASE, 51>>, <<XLTTAB_ADDR, 26>>, <<DPB0_ADDR, 15>>,
    <<DPH0_ADDR, 16>>, <<DPH1_ADDR, 16>>, <<DPH2_ADDR, 16>>, <<DPH3_ADDR, 16>>,
    <<DIRBUF_ADDR, 128>>,
    <<CSV0_ADDR, 16>>, <<CSV0_ADDR + 16, 16>>, <<CSV0_ADDR + 32, 16>>,
    <<CSV0_ADDR + 48, 16>>,
    <<ALV0_ADDR, 31>>, <<ALV0_ADDR + 31, 31>>, <<ALV0_ADDR + 62, 31>>,
    <<ALV0_ADDR + 93, 31>>>>

\* the layout the claim describes, read from mem
bios_layout(mem) ==
  /\ \A i \in 0..16 :
       LET addr == \hF600 + 3 * i
       IN mem[addr] = \hC3 /\ word_at(mem, addr + 1) = addr
  /\ \A k \in 1..26 : mem[\hF633 + k - 1] = xlttab[k]
  /\ [k \in 1..15 |-> mem[\hF64D + k - 1]]
       = <<26, 0, 3, 7, 0, 242, 0, 63, 0, \hC0, 0, 16, 0, 2, 0>>
  /\ \A d \in 0..3 :
       LET dph == \hF65C + 16 * d
       IN /\ word_at(mem, dph) = 0
          /\ word_at(mem, dph + 8) = \hF69C
          /\ word_at(mem, dph + 10) = \hF64D
          /\ word_at(mem, dph + 12) = \hF71C + 16 * d
          /\ word_at(mem, dph + 14) = \hF75C + 31 * d
          \* the work areas the header points to are those of the regions
          /\ word_at(mem, dph + 12) = BiosRegions[9 + d][1]
          /\ word_at(mem, dph + 14) = BiosRegions[13 + d][1]
  /\ \A r1, r2 \in 1..Len(BiosRegions) :
       r1 < r2 => \/ BiosRegions[r1][1] + BiosRegions[r1][2] <= BiosRegions[r2][1]
                  \/ BiosRegions[r2][1] + BiosRegions[r2][2] <= BiosRegions[r1][1]

\* C21: cpm_init_bios writes the BIOS layout: 17 JMP-to-self entries from
\* 0xF600, the sector translation table at 0xF633, the DPB at 0xF64D, and
\* for each drive a DPH at 0xF65C+16d with XLT 0, DIRBUF 0xF69C, DPB
\* 0xF64D, CSV 0xF71C+16d and ALV 0xF75C+31d; the regions and work areas
\* do not overlap; cpm_is_bios_trap(pc) is true exactly for 0xF600..0xF632.
C21_BiosLayout ==
  [][/\ last'.op = "cpm_init_bios" => bios_layout(cpm'.memory)
     /\ last'.op = "cpm_is_bios_trap" =>
          (cpm'.trap <=> (last'.arg >= \hF600 /\ last'.arg <= \hF632))
    ]_vars

\* memory filled with 0xE5 and poked has been initialized, and the last
\* jump-table byte 0xF632 has been found to be a trap address
C21_Witness ==
  /\ cpm.memory[\hF5F0] = \hE5
  /\ cpm.memory[\hF7D8] = \hAA
  /\ bios_layout(cpm.memory)
  /\ cpm.memory[\hF7D7] = 0
  /\ last = [op |-> "cpm_is_bios_trap", ins |-> NoIns, arg |-> \hF632]
  /\ cpm.trap

-----------------------------------------------------------------------------
(* RAM bank initialization.  The program selects RAM bank 0x81 and ROM     *)
(* bank 1 through ports 0x78 and 0x7C and through SYSSETBNK, and stores    *)
(* into the selected bank inside and above its first 512 bytes.            *)

InitAddrs == {\h0000, \h01FF, \h0200}
BankInitRomOffsets == InitAddrs
BankInitRamOffsets == {bank_offset(\h81, a) : a \in InitAddrs}

ImageBankInit ==
  [size |-> ROM_SIZE,
   data |-> [p \in BankInitRomOffsets |->
               CASE p = \h0000 -> \hC3 [] p = \h01FF -> \h1F [] OTHER -> \h20]]

\* an image whose first 512 bytes are 0x00
ImageZeroPage ==
  [size |-> ROM_SIZE,
   data |-> [p \in BankInitRomOffsets |-> IF p < \h0200 THEN \h00 ELSE \h20]]

BankInitProgram ==
  {[op |-> "LD_A", v |-> v] : v \in {\h81, \h01}}
  \cup {[op |-> "LD_HL", v |-> v] : v \in {\h0000, \h0200}}
  \cup {[op |-> "ST_N", v |-> \hAA]}
  \cup {[op |-> "LD_BC", v |-> HBF_SYSSETBNK * 256 + \h81]}
  \cup {[op |-> "OUT", port |-> p] : p \in {\h78, \h7C, \hEF}}

InitBankInit == InitWith(BankInitRomOffsets, BankInitRamOffsets)

NextBankInit ==
  \/ \E img \in {ImageBankInit, ImageZeroPage} : LoadROM(img)
  \/ Reset
  \/ Start
  \/ RunBatch(1)
  \/ Step(BankInitProgram)
  \/ Drain

SpecBankInit == InitBankInit /\ [][NextBankInit]_vars

\* TRUE when the step executed is a bank select
is_bank_select ==
  /\ last'.op = "execute" /\ last'.ins.op = "OUT"
  /\ \/ last'.ins.port \in {\h78, \h7C}
     \/ last'.ins.port = \hEF /\ reg_B(emu) = HBF_SYSSETBNK

\* the bank byte of that select
bank_selected == IF last'.ins.port = \hEF THEN reg_C(emu) ELSE reg_A(emu)

\* TRUE when bank byte v names a RAM bank that a select of either kind has
\* initialized
initialized_by_a_select(e, v) ==
  bank_index(v) \in e.initialized_ram_banks \cup e.hbios.initialized_banks

\* C22 as stated: the first select of a RAM bank after a reset, through
\* port 0x78/0x7C or SYSSETBNK, copies bytes 0x0000..0x01FF of ROM bank 0
\* into it and makes it the selected bank; a later select of the same
\* bank, through either, and every select of a ROM bank, changes no RAM
\* byte, so what the program stored persists.
C22_BankInitOnce ==
  [][is_bank_select =>
       LET v == bank_selected
           first == is_ram_bank(v) /\ ~initialized_by_a_select(emu, v)
       IN /\ get_current_bank(emu'.memory) = v
          /\ first =>
               \A a \in InitAddrs :
                 read_bank(emu'.memory, v, a) =
                   IF a < \h0200 THEN read_bank(emu.memory, \h00, a)
                   ELSE read_bank(emu.memory, v, a)
          /\ ~first => emu'.memory.ram = emu.memory.ram
    ]_vars

\* C22, what holds: initialization happens once per bank and kind of
\* select.  The first select of a RAM bank through port 0x78/0x7C since
\* reset(), and the first through SYSSETBNK since the dispatcher's reset,
\* copy bytes 0x0000..0x01FF of ROM bank 0 into it and make it the selected
\* bank; a later select of the same kind, and every select of a ROM bank,
\* changes no RAM byte.  The driver's bitmask grows by port selects only
\* and is emptied only by reset(); the dispatcher's record grows by
\* SYSSETBNK only and is emptied by reset() and start().
C22_BankInitOncePerPath ==
  [][/\ is_bank_select =>
          LET v == bank_selected
              by_port == last'.ins.port # \hEF
              seen == IF by_port THEN emu.initialized_ram_banks
                      ELSE emu.hbios.initialized_banks
              first == is_ram_bank(v) /\ bank_index(v) \notin seen
              grown == IF first THEN seen \cup {bank_index(v)} ELSE seen
          IN /\ get_current_bank(emu'.memory) = v
             /\ first =>
                  \A a \in InitAddrs :
                    read_bank(emu'.memory, v, a) =
                      IF a < \h0200 THEN read_bank(emu.memory, \h00, a)
                      ELSE read_bank(emu.memory, v, a)
             /\ ~first => emu'.memory.ram = emu.memory.ram
             /\ emu'.initialized_ram_banks =
                  IF by_port THEN grown ELSE emu.initialized_ram_banks
             /\ emu'.hbios.initialized_banks =
                  IF by_port THEN emu.hbios.initialized_banks ELSE grown
     /\ ~is_bank_select =>
          /\ \/ emu'.initialized_ram_banks = emu.initialized_ram_banks
             \/ last'.op = "reset" /\ emu'.initialized_ram_banks = {}
          /\ \/ emu'.hbios.initialized_banks = emu.hbios.initialized_banks
             \/ last'.op \in {"reset", "start"} /\ emu'.hbios.initialized_banks = {}
    ]_vars

\* bank 0x81 was selected by SYSSETBNK, the program stored 0xAA at 0x0000
\* and selected 0x81 through port 0x78: the driver initialized the bank
\* again and the byte holds the ROM's 0x00
C22_Witness ==
  /\ last.op = "execute" /\ last.ins = [op |-> "OUT", port |-> \h78]
  /\ get_current_bank(emu.memory) = \h81
  /\ bank_index(\h81) \in emu.hbios.initialized_banks
  /\ bank_index(\h81) \in emu.initialized_ram_banks
  /\ loaded = ImageZeroPage /\ writes = 2
  /\ fetch_mem(emu.memory, \h0000) = \h00

\* C23: loadROM leaves every RAM bank uninitialized: the bitmask is empty
\* after a successful load, and the next select of RAM bank 0x81, with no
\* RAM written since the load, copies 0x0000..0x01FF of the new ROM's bank
\* 0 into it.
C23_LoadClearsBitmask ==
  [][/\ (last'.op = "loadROM" /\ loaded' # NoImage) =>
          emu'.initialized_ram_banks = {}
     /\ (is_bank_select /\ bank_selected = \h81 /\ loaded # NoImage /\ writes = 0) =>
          \A a \in {\h0000, \h01FF} :
            read_bank(emu'.memory, \h81, a) = read_bank(emu'.memory, \h00, a)
    ]_vars

\* bank 0x81 was selected before the ROM was loaded again; selected after
\* the load it is marked initialized and holds zeroes, not the ROM's bytes
C23_Witness ==
  /\ last.op = "execute" /\ last.ins = [op |-> "OUT", port |-> \h78]
  /\ get_current_bank(emu.memory) = \h81
  /\ loaded = ImageBankInit /\ writes = 0
  /\ bank_index(\h81) \in emu.initialized_ram_banks
  /\ fetch_mem(emu.memory, \h0000) = \h00
  /\ read_bank(emu.memory, \h00, \h0000) = \hC3

-----------------------------------------------------------------------------
(* SpecImage: memory after a ROM load.  The model tracks ROM offsets       *)
(* 0x0000, 0x0112, 0x01FF and 0x0200, the same offsets of RAM bank 0,      *)
(* 0x0000 and 0x0200 of RAM bank 1 and 0x8000 (common area).  Images of    *)
(* 256 bytes, 512 bytes and 512 KiB are loaded over each other.            *)

ImageAddrs == {\h0000, \h0112, \h01FF, \h0200}
ImageRomOffsets == ImageAddrs
ImageRamOffsets ==
  ImageAddrs \cup {bank_offset(\h81, a) : a \in {\h0000, \h0200}}
             \cup {common_offset(\h8000)}

ImagePage == [size |-> 256, data |-> [p \in {\h0000} |-> \hF3]]
ImageHcb ==
  [size |-> 512,
   data |-> [p \in {\h0000, \h0112, \h01FF} |->
               CASE p = \h0000 -> \h31 [] p = \h0112 -> \h01 [] OTHER -> \h1E]]
ImageWhole ==
  [size |-> ROM_SIZE,
   data |-> [p \in ImageAddrs |->
               CASE p = \h0000 -> \hC3 [] p = \h0112 -> \hFF
                 [] p = \h01FF -> \h1F [] OTHER -> \h20]]
ImageSet == {ImagePage, ImageHcb, ImageWhole}

ImageProgram ==
  {[op |-> "LD_A", v |-> v] : v \in {\h80, \h81}}
  \cup {[op |-> "LD_HL", v |-> v] : v \in {\h0112, \h0200, \h8000}}
  \cup {[op |-> "ST_N", v |-> \hAA]}
  \cup {[op |-> "OUT", port |-> \h78]}

InitImage == InitWith(ImageRomOffsets, ImageRamOffsets)

NextImage ==
  \/ \E img \in ImageSet : LoadROM(img)
  \/ Start
  \/ RunBatch(1)
  \/ Step(ImageProgram)
  \/ Drain

SpecImage == InitImage /\ [][NextImage]_vars

\* C24: after a successful loadROM(R) of 0 < len <= 512 KiB bytes, ROM
\* offset i holds R[i] for every i < len other than 0x0112, which holds
\* 0x00; bytes 0..0x1FF of RAM bank 0 equal ROM bytes 0..0x1FF (0x0112
\* included) and every other RAM byte is zero.
C24_MemoryAfterLoad ==
  [][(last'.op = "loadROM" /\ last'.arg > 0 /\ last'.arg <= ROM_SIZE) =>
       /\ emu'.log = "ROM loaded"
       /\ \A i \in DOMAIN emu'.memory.rom :
            (i < loaded'.size /\ i # \h0112) => emu'.memory.rom[i] = loaded'.data[i]
       /\ emu'.memory.rom[\h0112] = \h00
       /\ \A p \in DOMAIN emu'.memory.ram :
            emu'.memory.ram[p] =
              IF p < \h0200 THEN emu'.memory.rom[p] ELSE \h00
    ]_vars

\* the 256-byte image was loaded over a larger one after the program had
\* written RAM: RAM bank 0 repeats ROM byte 0x01FF, which the short image
\* does not cover, CB_APITYPE is zero and the RAM written is zero again
C24_Witness ==
  /\ last.op = "loadROM" /\ loaded = ImagePage
  /\ emu.initialized_ram_banks # {}
  /\ emu.memory.rom[\h0000] = \hF3 /\ emu.memory.ram[\h0000] = \hF3
  /\ emu.memory.rom[\h01FF] # \h00 /\ emu.memory.ram[\h01FF] = emu.memory.rom[\h01FF]
  /\ emu.memory.ram[\h0112] = \h00
  /\ emu.memory.ram[\h0200] = \h00

-----------------------------------------------------------------------------
(* SpecCopyWrap: bank copies that wrap around 0xFFFF and overwrite the     *)
(* destination bank byte.  The model tracks ROM offsets 0x0000 and 0x0019, *)
(* address 0x0000 of RAM banks 0x80 and 0x81, and the common-area          *)
(* addresses 0xFFE4 and 0xFFE7.  With DE = 0xFFE7 the copy writes 0xFFE7   *)
(* at byte 0 and address 0x0000 at byte 0x19.                              *)

WrapRomOffsets == {\h0000, \h0019}
WrapRamOffsets ==
  {bank_offset(\h80, \h0000), bank_offset(\h81, \h0000),
   common_offset(\hFFE4), common_offset(\hFFE7)}

ImageWrap ==
  [size |-> ROM_SIZE,
   data |-> [p \in WrapRomOffsets |-> IF p = \h0000 THEN \h81 ELSE \h19]]

WrapProgram ==
  {[op |-> "LD_A", v |-> \h81]}
  \cup {[op |-> "LD_HL", v |-> v] : v \in {\h0000, \hFFE7}}
  \cup {[op |-> "ST_N", v |-> \h80]}
  \cup {[op |-> "LD_DE", v |-> \hFFE7]}
  \cup {[op |-> "LD_BC", v |-> v] : v \in {\h0000, \h0001, \h001A}}
  \cup {[op |-> "OUT", port |-> p] : p \in {\h78, \hEC}}

InitCopyWrap == InitWith(WrapRomOffsets, WrapRamOffsets)

NextCopyWrap ==
  \/ LoadROM(ImageWrap)
  \/ Start
  \/ RunBatch(1)
  \/ Step(WrapProgram)
  \/ Drain

SpecCopyWrap == InitCopyWrap /\ [][NextCopyWrap]_vars

\* the byte store and offset that address `a` under bank byte `b` names
location(b, a) ==
  IF a >= BANK_SIZE THEN <<"ram", common_offset(a)>>
  ELSE IF is_ram_bank(b) THEN <<"ram", bank_offset(b, a)>>
  ELSE <<"rom", bank_offset(b, a)>>

\* the byte held at a location
held(m, l) == IF l[1] = "ram" THEN cell(m.ram, l[2]) ELSE cell(m.rom, l[2])

\* C25: OUT to port 0xEC copies exactly BC bytes (none when BC = 0): byte i
\* goes from address (HL+i) mod 2^16 to address (DE+i) mod 2^16, the source
\* being the common window at or above 0x8000 and else the bank whose byte
\* was at 0xFFE4 before the copy, the destination the common window at or
\* above 0x8000 and else the bank whose byte was at 0xFFE7 before the copy;
\* no other byte changes, and HL, DE, BC and the selected bank are as
\* before.  (A byte whose source an earlier byte of the same copy has
\* written is the subject of C13.)
C25_BankCopy ==
  [][(last'.op = "execute" /\ last'.ins = OUT_EC) =>
       LET m == emu.memory
           n == emu.cpu.BC
           sb == fetch_mem(m, \hFFE4)
           db == fetch_mem(m, \hFFE7)
           src(i) == location(sb, (emu.cpu.HL + i) % 65536)
           dst(i) == location(db, (emu.cpu.DE + i) % 65536)
           written == {dst(i) : i \in 0 .. n - 1}
       IN /\ emu'.memory.rom = m.rom
          /\ \A p \in DOMAIN m.ram :
               <<"ram", p>> \notin written => emu'.memory.ram[p] = m.ram[p]
          /\ \A i \in 0 .. n - 1 :
               (/\ dst(i)[1] = "ram" /\ dst(i)[2] \in DOMAIN m.ram
                /\ \A j \in 0 .. n - 1 : j > i => dst(j) # dst(i)
                /\ \A j \in 0 .. n - 1 : j < i => dst(j) # src(i))
               => emu'.memory.ram[dst(i)[2]] = held(m, src(i))
          /\ emu'.cpu.HL = emu.cpu.HL /\ emu'.cpu.DE = emu.cpu.DE
          /\ emu'.cpu.BC = emu.cpu.BC
          /\ get_current_bank(emu'.memory) = get_current_bank(m)
    ]_vars

\* a copy of 0x1A bytes from ROM 0x0000 to 0xFFE7, with 0x80 at 0xFFE7 and
\* ROM bank 0 selected: byte 0 stored 0x81 at 0xFFE7, byte 0x19 wrapped to
\* address 0x0000 and went to bank 0x80, not to bank 0x81
C25_Witness ==
  /\ last.op = "execute" /\ last.ins = OUT_EC
  /\ emu.cpu.HL = \h0000 /\ emu.cpu.DE = \hFFE7 /\ emu.cpu.BC = \h001A
  /\ loaded = ImageWrap
  /\ fetch_mem(emu.memory, \hFFE7) = \h81
  /\ read_bank(emu.memory, \h80, \h0000) = \h19
  /\ read_bank(emu.memory, \h81, \h0000) = \h00
  /\ get_current_bank(emu.memory) = \h00

-----------------------------------------------------------------------------
(* SpecRelaunch: stopping, loading and starting again.  The program        *)
(* selects RAM bank 0x81, stores into it and writes to the console; the    *)
(* host sets a boot string, queues input, stops, loads the ROM and starts. *)
(* The tracked addresses are those of SpecBankInit.                        *)

RelaunchProgram ==
  {[op |-> "LD_A", v |-> \h81]}
  \cup {[op |-> "LD_HL", v |-> \h0200]}
  \cup {[op |-> "ST_N", v |-> \hAA]}
  \cup {[op |-> "OUT", port |-> p] : p \in {\h78, \h68}}

NextRelaunch ==
  \/ LoadROM(ImageBankInit)
  \/ SetBootString(<<\h31>>)
  \/ QueueInput(\h41)
  \/ Start
  \/ Stop
  \/ RunBatch(1)
  \/ Step(RelaunchProgram)
  \/ Drain

SpecRelaunch == InitBankInit /\ [][NextRelaunch]_vars

\* the state that affects execution
execution_state(e) ==
  [cpu |-> e.cpu, bank |-> get_current_bank(e.memory), ram |-> e.memory.ram,
   initialized_ram_banks |-> e.initialized_ram_banks,
   input |-> e.hbios.input, output |-> e.hbios.output, state |-> e.hbios.state,
   running |-> e.running, waiting_for_input |-> e.waiting_for_input,
   instruction_count |-> e.instruction_count]

\* stop(), loadROM(R), start() on the emulator e
relaunched(e, img) == start(loadROM(stop(e), img.data, img.size))

\* a newly constructed emulator with the disks and boot string of e, after
\* loadROM(R), start()
fresh_launch(e, img) ==
  LET n == HBIOSEmulator(DOMAIN e.memory.rom, DOMAIN e.memory.ram)
      f == setBootString([n EXCEPT !.hbios.disks = e.hbios.disks], e.boot_string)
  IN start(loadROM(f, img.data, img.size))

\* C26: from every state the emulator can be in between host calls,
\* stop(), loadROM(R), start() gives the CPU registers, selected bank, RAM,
\* initialized-banks bitmask, input and output rings, dispatch state,
\* running and waiting flags and instruction count that a newly
\* constructed emulator has after loadROM(R), start() with the same disks
\* and boot string.
C26_RelaunchIsFresh ==
  ~call.active =>
    execution_state(relaunched(emu, ImageBankInit)) =
      execution_state(fresh_launch(emu, ImageBankInit))

\* the program selected RAM bank 0x81, the host then stopped, loaded the
\* ROM and started: the bank is still marked initialized, which it is not
\* after a fresh launch, and everything else is as after a fresh launch
C26_Witness ==
  /\ last.op = "start" /\ loaded = ImageBankInit /\ writes = 0
  /\ emu.running /\ emu.instruction_count = 0
  /\ emu.initialized_ram_banks = {bank_index(\h81)}
  /\ read_bank(emu.memory, \h81, \h0000) = \h00
  /\ [execution_state(emu) EXCEPT !.initialized_ram_banks = {}] =
       execution_state(fresh_launch(emu, ImageBankInit))

-----------------------------------------------------------------------------
(* SpecSelect: bank selects and the common area.  The model tracks ROM     *)
(* offsets 0x0000, 0x01FF and 0x0200, address 0x0000 of RAM bank 0x80 and  *)
(* the common-area addresses 0x8000, 0x81FF, 0x8200 and 0xFFFF.            *)

SelectCommonAddrs == {\h8000, \h81FF, \h8200, \hFFFF}
SelectRomOffsets == InitAddrs
SelectRamOffsets ==
  {bank_offset(\h80, \h0000)} \cup {common_offset(a) : a \in SelectCommonAddrs}

SelectProgram ==
  {[op |-> "LD_A", v |-> v] : v \in {\h80, \h8F, \h0F}}
  \cup {[op |-> "LD_HL", v |-> v] : v \in {\h8000, \hFFFF}}
  \cup {[op |-> "ST_N", v |-> \hAA]}
  \cup {[op |-> "OUT", port |-> p] : p \in {\h78, \h7C}}

InitSelect == InitWith(SelectRomOffsets, SelectRamOffsets)

NextSelect ==
  \/ LoadROM(ImageBankInit)
  \/ Reset
  \/ Start
  \/ RunBatch(1)
  \/ Step(SelectProgram)
  \/ Drain

SpecSelect == InitSelect /\ [][NextSelect]_vars

\* TRUE when the step executed is an OUT to port 0x78 or 0x7C
is_port_select ==
  last'.op = "execute" /\ last'.ins.op = "OUT" /\ last'.ins.port \in {\h78, \h7C}

\* C27 (as stated): an OUT to port 0x78 or 0x7C, a first select of a RAM
\* bank included, leaves fetch(a) as it was for every a in 0x8000..0xFFFF.
C27_SelectKeepsCommon ==
  [][is_port_select =>
       \A a \in SelectCommonAddrs :
         fetch_mem(emu'.memory, a) = fetch_mem(emu.memory, a)]_vars

\* C27 (amended): an OUT to port 0x78 or 0x7C leaves fetch(a) as it was
\* for every a in 0x8000..0xFFFF, except the first select of bank 0x8F
\* after construction or reset(): RAM bank index 15 is the common area, so
\* its initialization stores bytes 0x0000..0x01FF of ROM bank 0 at
\* 0x8000..0x81FF; 0x8200..0xFFFF are as before.
C27_SelectKeepsCommonAbove ==
  [][is_port_select =>
       LET first == /\ reg_A(emu) = \h8F
                    /\ bank_index(\h8F) \notin emu.initialized_ram_banks
       IN \A a \in SelectCommonAddrs :
            fetch_mem(emu'.memory, a) =
              IF first /\ a < \h8200 THEN read_bank(emu.memory, \h00, a - \h8000)
              ELSE fetch_mem(emu.memory, a)]_vars

\* the program stored 0xAA at 0x8000 and then selected bank 0x8F for the
\* first time: 0x8000 and 0x81FF hold the ROM's bytes 0x0000 and 0x01FF
C27_Witness ==
  /\ last.op = "execute" /\ last.ins = [op |-> "OUT", port |-> \h78]
  /\ get_current_bank(emu.memory) = \h8F
  /\ loaded = ImageBankInit /\ writes = 2
  /\ emu.cpu.HL = \h8000
  /\ fetch_mem(emu.memory, \h8000) = \hC3
  /\ fetch_mem(emu.memory, \h81FF) = \h1F
  /\ fetch_mem(emu.memory, \h8200) = \h00

-----------------------------------------------------------------------------
(* Claims about hasInput(), checked under SpecBoot *)

\* what start() feeds for the boot string the emulator holds
boot_feed(e) == IF e.boot_string # <<>> THEN Append(e.boot_string, CR) ELSE <<>>

\* TRUE when the input queued since start() begins with that feed
boot_string_fed ==
  /\ Len(queued) >= Len(boot_feed(emu))
  /\ SubSeq(queued, 1, Len(boot_feed(emu))) = boot_feed(emu)

\* C28: while the emulator runs on the boot string it was started with,
\* hasInput() is true exactly when a queued character, boot-string
\* characters included, has not yet been read by the CPU, and false once
\* all of them have been read.
C28_HasInputIffUnconsumed ==
  (emu.running /\ boot_string_fed) =>
    (hasInput(emu) <=> Len(observed) < Len(queued))

\* started on the boot string "1", the program has read "1" and CR and the
\* ring is empty, yet hasInput() is true: boot_string_pos is still 0
C28_Witness ==
  /\ emu.running /\ emu.boot_string = <<\h31>>
  /\ queued = <<\h31, CR>> /\ observed = queued
  /\ emu.hbios.input = <<>>
  /\ emu.boot_string_pos = 0
  /\ hasInput(emu)

-----------------------------------------------------------------------------
(* Claims about the waiting flag, checked under Spec *)

\* C29: with queueInput, runBatch, start, stop and reset called one at a
\* time, isWaitingForInput() implies that the dispatch state is NeedsInput
\* and the input ring is empty, in every state, the states inside a
\* runBatch call included; the flag is false after every queueInput,
\* start and reset.
C29_WaitingMeansNeedsInput ==
  /\ isWaitingForInput(emu) =>
       emu.hbios.state = HBIOS_NEEDS_INPUT /\ ~hasInputChar(emu.hbios)
  /\ last.op \in {"queueInput", "start", "reset"} => ~isWaitingForInput(emu)

\* the program read the character typed, called CIOIN again on the empty
\* ring and runBatch returned with the flag set; stop() left it set
C29_Witness ==
  /\ isWaitingForInput(emu) /\ ~call.active
  /\ emu.hbios.state = HBIOS_NEEDS_INPUT
  /\ observed # <<>> /\ observed = queued
  /\ last.op = "stop" /\ ~emu.running

====
